---- MODULE Spec2Model ----
(***************************************************************************)
(* Schedule construction and validation engine of the class scheduler:    *)
(* generateIntelligentSchedule (phases 0-3) and validateTeacherHours.      *)
(*                                                                         *)
(* Representation                                                          *)
(*  - a time of day "HH:MM" is the integer number of minutes since         *)
(*    midnight (all times the code handles are zero-padded, so string     *)
(*    order, string equality and includes() coincide with the integers);  *)
(*  - a duration string '1' / '0.75' / '0.5' is parseFloat(duration)*60,   *)
(*    i.e. 60 / 45 / 30 minutes;                                           *)
(*  - the hour trackers hold tenths of an hour (the code rounds them with *)
(*    toFixed(1) after every addition);                                    *)
(*  - an instructor name is the tuple of its words, i.e. name.split(' ');  *)
(*  - substring tests on format names are tabulated over FormatPool.       *)
(***************************************************************************)
EXTENDS Integers, Sequences, FiniteSets, TLC

(***************************************************************************)
(* Bounds of the model                                                     *)
(***************************************************************************)
MaxCsv == 3          \* longest excerpt of the historical feed given as csvData
MaxExisting == 12    \* largest existing assignment set handed to the validator
MaxSlotRecords == 3  \* most records of one slot given as csvData
MaxCopies == 3       \* most copies of the one record of a repeated history
MaxManual == 3       \* most manual additions made to one generated schedule
MaxIterations == 2   \* most schedule options in one answer of the recommendation service
MaxSuggested == 2    \* most assignments in one suggested schedule
MaxSunday == 3           \* records of a history cut from the Sunday feed
MaxFilterRecords == 3    \* records of a history cut from the feed of one Sunday slot

(***************************************************************************)
(* Fixed tables of the program                                             *)
(***************************************************************************)
Kwality == "Kwality House, Kemps Corner"
Supreme == "Supreme HQ, Bandra"
Kenkere == "Kenkere House"

locations == <<Kwality, Supreme, Kenkere>>

AllDays == <<"Monday", "Tuesday", "Wednesday", "Thursday", "Friday", "Saturday", "Sunday">>

NoDay == "none"      \* options.targetDay left undefined

seniorTrainers == {"Anisha", "Vivaran", "Mrigakshi", "Pranjali", "Atulan", "Cauveri", "Rohan"}
newTrainers == {"Kabir", "Simonelle"}
advancedFormats == {"Studio HIIT", "Studio Amped Up!"}
allowedFormats == {"Studio Barre 57", "Studio Barre 57 (Express)", "Studio powerCycle",
                   "Studio powerCycle (Express)", "Studio Cardio Barre"}

\* The class formats that occur in the model.
FormatPool == {"Studio Barre 57", "Studio Mat 57", "Studio FIT",
               "Studio Cardio Barre (Express)", "Studio Mat 57 (Express)",
               "Studio Back Body Blaze (Express)", "Studio HIIT", "Studio Amped Up!",
               "Studio powerCycle", "Studio Recovery", "Studio Cardio Barre",
               "Studio Hosted Class"}

\* className.toLowerCase().includes(needle), tabulated over FormatPool.
LowerIncludes(className, needle) ==
    CASE needle = "express"  -> className \in {"Studio Cardio Barre (Express)", "Studio Mat 57 (Express)",
                                                "Studio Back Body Blaze (Express)"}
      [] needle = "recovery" -> className = "Studio Recovery"
      [] needle = "sweat in 30" -> FALSE
      [] needle = "hosted"   -> className = "Studio Hosted Class"
      [] needle = "amped up" -> className = "Studio Amped Up!"
      [] needle = "hiit"     -> className = "Studio HIIT"
      [] needle = "powercycle" -> className = "Studio powerCycle"
      [] needle = "power cycle" -> FALSE

\* teacherName.includes(part) for the first names of the tier lists: in the
\* names of the model a tier name occurs only as a whole word.
NameIncludes(teacherName, part) == \E i \in DOMAIN teacherName : teacherName[i] = part

RECURSIVE JoinWords(_)
\* words.join(' ')
JoinWords(words) ==
    IF words = <<>> THEN ""
    ELSE IF Len(words) = 1 THEN words[1]
    ELSE words[1] \o " " \o JoinWords(Tail(words))

\* `${cls.teacherFirstName} ${cls.teacherLastName}`
FullName(cls) == cls.teacherFirstName \o " " \o cls.teacherLastName

(***************************************************************************)
(* ConstraintEngine: pure functions                                        *)
(***************************************************************************)
getClassDuration(className) ==
    IF LowerIncludes(className, "express") THEN 45
    ELSE IF LowerIncludes(className, "recovery") \/ LowerIncludes(className, "sweat in 30") THEN 30
    ELSE 60

isHostedClass(className) == LowerIncludes(className, "hosted")

isClassAllowedAtLocation(classFormat, location) ==
    IF location = Supreme
    THEN ~(LowerIncludes(classFormat, "amped up") \/ LowerIncludes(classFormat, "hiit"))
    ELSE ~(LowerIncludes(classFormat, "powercycle") \/ LowerIncludes(classFormat, "power cycle"))

getMaxParallelClasses(location) ==
    CASE location = Supreme -> 3
      [] location = Kwality -> 2
      [] location = Kenkere -> 2
      [] OTHER -> 1

\* The labels of the 30-minute steps from the start: start, start+30, ...
\* while the offset is below the duration.
getOccupiedTimeSlots(startTime, duration) ==
    {startTime + i : i \in {j \in {0, 30} : j < duration}}

canAssignClassToStudio(scheduledClasses, newClass) ==
    \A timeSlot \in getOccupiedTimeSlots(newClass.time, newClass.duration) :
        Cardinality({i \in DOMAIN scheduledClasses :
                        /\ scheduledClasses[i].location = newClass.location
                        /\ scheduledClasses[i].day = newClass.day
                        /\ timeSlot \in getOccupiedTimeSlots(scheduledClasses[i].time,
                                                             scheduledClasses[i].duration)})
            < getMaxParallelClasses(newClass.location)

isTimeRestricted(time, day, isPrivateClass) ==
    LET isInRestrictedPeriod == time >= 12 * 60 /\ time < 17 * 60
    IN  IF isPrivateClass /\ isInRestrictedPeriod THEN FALSE ELSE isInRestrictedPeriod

RECURSIVE generateTimeSlots(_, _)
generateTimeSlots(startHour, endHour) ==
    IF startHour > endHour THEN <<>>
    ELSE <<startHour * 60, startHour * 60 + 15, startHour * 60 + 30, startHour * 60 + 45>>
            \o generateTimeSlots(startHour + 1, endHour)

\* Fault model: the grid whose Sunday opens at 09:00.
getAvailableTimeSlotsSundayFromNine(day) ==
    IF day = "Sunday"
    THEN SortSeq(generateTimeSlots(9, 11) \o generateTimeSlots(17, 19), <)
    ELSE IF day = "Saturday"
    THEN SortSeq(<<8 * 60 + 30, 8 * 60 + 45>> \o generateTimeSlots(9, 11) \o generateTimeSlots(17, 19), <)
    ELSE SortSeq(<<7 * 60 + 30, 7 * 60 + 45>> \o generateTimeSlots(8, 11) \o generateTimeSlots(17, 19), <)

getAvailableTimeSlots(day) ==
    IF day = "Sunday"
    THEN SortSeq(generateTimeSlots(10, 11) \o generateTimeSlots(17, 19), <)
    ELSE IF day = "Saturday"
    THEN SortSeq(<<8 * 60 + 30, 8 * 60 + 45>> \o generateTimeSlots(9, 11) \o generateTimeSlots(17, 19), <)
    ELSE SortSeq(<<7 * 60 + 30, 7 * 60 + 45>> \o generateTimeSlots(8, 11) \o generateTimeSlots(17, 19), <)

isMorningSlot(time) == time \div 60 < 12
isEveningSlot(time) == time \div 60 >= 17
isPeakHour(time) ==
    LET hour == time \div 60
    IN  (hour >= 7 /\ hour <= 11) \/ (hour >= 17 /\ hour <= 19)

RECURSIVE ConsecutiveScan(_, _, _, _)
\* The loop of getConsecutiveClassesCount over the sorted times, from index i.
ConsecutiveScan(times, i, currentConsecutive, maxConsecutive) ==
    IF i > Len(times) THEN maxConsecutive
    ELSE IF times[i] - times[i - 1] <= 90
         THEN ConsecutiveScan(times, i + 1, currentConsecutive + 1,
                              IF currentConsecutive + 1 > maxConsecutive
                              THEN currentConsecutive + 1 ELSE maxConsecutive)
         ELSE ConsecutiveScan(times, i + 1, 1, maxConsecutive)

RECURSIVE TimesOf(_, _, _)
\* scheduledClasses.filter(teacher and day match).map(cls => cls.time)
TimesOf(scheduledClasses, teacherString, day) ==
    IF scheduledClasses = <<>> THEN <<>>
    ELSE (IF FullName(Head(scheduledClasses)) = teacherString /\ Head(scheduledClasses).day = day
          THEN <<Head(scheduledClasses).time>> ELSE <<>>)
         \o TimesOf(Tail(scheduledClasses), teacherString, day)

getConsecutiveClassesCount(scheduledClasses, teacherName, day, newTime) ==
    LET teacherDayClasses ==
            SortSeq(TimesOf(scheduledClasses, JoinWords(teacherName), day) \o <<newTime>>, <)
    IN  ConsecutiveScan(teacherDayClasses, 2, 1, 1)

getDayGuidelines(day) ==
    CASE day = "Monday" ->
           [avoid |-> {"Studio Recovery"},
            priority |-> {"Studio Barre 57", "Studio FIT", "Studio powerCycle", "Studio Mat 57"}]
      [] day = "Tuesday" ->
           [avoid |-> {"Studio HIIT", "Studio Amped Up!"},
            priority |-> {"Studio Barre 57", "Studio Mat 57", "Studio Foundations", "Studio Cardio Barre"}]
      [] day = "Wednesday" ->
           [avoid |-> {},
            priority |-> {"Studio Barre 57", "Studio FIT", "Studio powerCycle", "Studio Mat 57"}]
      [] day = "Thursday" ->
           [avoid |-> {},
            priority |-> {"Studio Recovery", "Studio Mat 57", "Studio Cardio Barre", "Studio Back Body Blaze"}]
      [] day = "Friday" ->
           [avoid |-> {},
            priority |-> {"Studio HIIT", "Studio Amped Up!", "Studio FIT", "Studio Cardio Barre"}]
      [] day = "Saturday" ->
           [avoid |-> {"Studio HIIT"},
            priority |-> {"Studio Barre 57", "Studio Foundations", "Studio Recovery", "Studio Mat 57"}]
      [] day = "Sunday" ->
           [avoid |-> {"Studio HIIT", "Studio Amped Up!"},
            priority |-> {"Studio Barre 57", "Studio Recovery", "Studio Mat 57"}]
      [] OTHER -> [avoid |-> {}, priority |-> {}]

Anisha == <<"Anisha", "Shah">>
Pranjali == <<"Pranjali", "Jain">>
Richard == <<"Richard", "D'Costa">>
Mrigakshi == <<"Mrigakshi", "Jaiswal">>
Rohan == <<"Rohan", "Dahima">>

getDefaultTopClasses ==
    << [classFormat |-> "Studio Barre 57", day |-> "Monday", time |-> 7 * 60 + 30,
        location |-> Kwality, teacher |-> Anisha, avgParticipants |-> 12, isLocked |-> TRUE],
       [classFormat |-> "Studio Mat 57", day |-> "Monday", time |-> 8 * 60 + 30,
        location |-> Kwality, teacher |-> Anisha, avgParticipants |-> 10, isLocked |-> TRUE],
       [classFormat |-> "Studio Barre 57", day |-> "Monday", time |-> 18 * 60 + 45,
        location |-> Kwality, teacher |-> Pranjali, avgParticipants |-> 9, isLocked |-> TRUE],
       [classFormat |-> "Studio FIT", day |-> "Tuesday", time |-> 7 * 60 + 30,
        location |-> Kwality, teacher |-> Anisha, avgParticipants |-> 11, isLocked |-> TRUE],
       [classFormat |-> "Studio FIT", day |-> "Tuesday", time |-> 19 * 60 + 15,
        location |-> Kwality, teacher |-> Richard, avgParticipants |-> 9, isLocked |-> TRUE],
       [classFormat |-> "Studio Cardio Barre (Express)", day |-> "Wednesday", time |-> 7 * 60 + 30,
        location |-> Kwality, teacher |-> Anisha, avgParticipants |-> 10, isLocked |-> TRUE],
       [classFormat |-> "Studio Mat 57 (Express)", day |-> "Thursday", time |-> 7 * 60 + 30,
        location |-> Kwality, teacher |-> Mrigakshi, avgParticipants |-> 8, isLocked |-> TRUE],
       [classFormat |-> "Studio Back Body Blaze (Express)", day |-> "Friday", time |-> 7 * 60 + 30,
        location |-> Kwality, teacher |-> Mrigakshi, avgParticipants |-> 9, isLocked |-> TRUE],
       [classFormat |-> "Studio Mat 57", day |-> "Saturday", time |-> 10 * 60 + 15,
        location |-> Kwality, teacher |-> Pranjali, avgParticipants |-> 12, isLocked |-> TRUE],
       [classFormat |-> "Studio Barre 57", day |-> "Sunday", time |-> 11 * 60 + 30,
        location |-> Kwality, teacher |-> Rohan, avgParticipants |-> 10, isLocked |-> TRUE] >>

(***************************************************************************)
(* Inputs: the historical feed, the custom teachers and the options        *)
(***************************************************************************)
Karanvir == <<"Karanvir">>
Kabir == <<"Kabir", "Varma">>
Reshma == <<"Reshma", "Sharma">>
Cauveri == <<"Cauveri", "Rao">>

\* All instructor names of the model in the order of Array.prototype.sort()
\* (UTF-16 code units of the joined names).
SortedTeacherPool == <<Anisha, Cauveri, Kabir, Karanvir, Mrigakshi, Pranjali, Reshma, Richard, Rohan>>

Rec(cleanedClass, location, dayOfWeek, classTime, teacherName, participants, totalRevenue) ==
    [cleanedClass |-> cleanedClass, location |-> location, dayOfWeek |-> dayOfWeek,
     classTime |-> classTime, teacherName |-> teacherName, participants |-> participants,
     totalRevenue |-> totalRevenue]

\* The historical feed the datasets are cut from.
RecordPool ==
    << Rec("Studio Recovery", Kenkere, "Thursday", 9 * 60, Karanvir, 9, 2000),
       Rec("Studio Mat 57 (Express)", Kenkere, "Thursday", 9 * 60 + 30, Karanvir, 8, 3000),
       Rec("Studio Back Body Blaze (Express)", Kenkere, "Thursday", 10 * 60, Karanvir, 7, 2500),
       Rec("Studio Barre 57", Kenkere, "Monday", 9 * 60, Kabir, 9, 5000),
       Rec("Studio Cardio Barre", Kenkere, "Thursday", 18 * 60, Kabir, 8, 6000),
       Rec("Studio FIT", Kenkere, "Thursday", 18 * 60, Kabir, 10, 4000),
       Rec("Studio HIIT", Kenkere, "Friday", 18 * 60, Reshma, 11, 7000),
       Rec("Studio powerCycle", Kwality, "Thursday", 18 * 60, Reshma, 12, 9000) >>

\* csvData is a contiguous excerpt of the feed of at most MaxCsv records.
Datasets ==
    {<<>>} \cup {SubSeq(RecordPool, w[1], w[2]) :
                    w \in {v \in (1..Len(RecordPool)) \X (1..Len(RecordPool)) :
                              v[2] >= v[1] /\ v[2] - v[1] + 1 <= MaxCsv}}

SeqsUpTo(S, n) == UNION {[1..k -> S] : k \in 0..n}

\* Records of one slot (Kenkere House, Thursday 18:00): two formats of the
\* day's priority list, two others, a second record of one format, and a
\* record below the participant threshold.
RankerPool ==
    << Rec("Studio Cardio Barre", Kenkere, "Thursday", 18 * 60, Kabir, 8, 6000),
       Rec("Studio FIT", Kenkere, "Thursday", 18 * 60, Kabir, 10, 4000),
       Rec("Studio HIIT", Kenkere, "Thursday", 18 * 60, Reshma, 11, 7000),
       Rec("Studio Recovery", Kenkere, "Thursday", 18 * 60, Reshma, 9, 2000),
       Rec("Studio FIT", Kenkere, "Thursday", 18 * 60, Reshma, 6, 1000),
       Rec("Studio Mat 57", Kenkere, "Thursday", 18 * 60, Reshma, 4, 9000) >>

\* csvData made of at most MaxSlotRecords records of the slot, in feed order.
RankerDatasets ==
    {[k \in DOMAIN q |-> RankerPool[q[k]]] :
        q \in {r \in SeqsUpTo(DOMAIN RankerPool, MaxSlotRecords) :
                  \A k \in 1..(Len(r) - 1) : r[k] < r[k + 1]}}

\* Records a history may repeat: one on a Phase 0 slot, plain ones, one of a
\* new-tier instructor with a format outside the whitelist, one with a
\* format of the day's avoid list, one of an instructor with a one-word name,
\* one in a peak hour at a location where a senior trainer works that evening.
ScenarioPool ==
    << Rec("Studio Barre 57", Kwality, "Monday", 7 * 60 + 30, Anisha, 8, 3000),
       Rec("Studio HIIT", Kenkere, "Friday", 18 * 60, Reshma, 11, 7000),
       Rec("Studio Barre 57", Supreme, "Wednesday", 9 * 60, Reshma, 8, 3000),
       Rec("Studio FIT", Kenkere, "Thursday", 18 * 60, Kabir, 10, 4000),
       Rec("Studio Recovery", Kenkere, "Monday", 9 * 60, Reshma, 9, 2000),
       Rec("Studio Recovery", Kenkere, "Thursday", 9 * 60, Karanvir, 9, 2000),
       Rec("Studio Mat 57", Kwality, "Monday", 18 * 60, Reshma, 8, 3000) >>

\* csvData made solely of k copies of one record, 1 <= k <= MaxCopies.
RepeatedDatasets ==
    {[c \in 1..k |-> ScenarioPool[r]] : r \in DOMAIN ScenarioPool, k \in 1..MaxCopies}

\* A feed around Sunday: records in Sunday slots at the three locations, one
\* with a format of Sunday's avoid list, and one weekday record.
SundayPool ==
    << Rec("Studio Barre 57", Kwality, "Sunday", 10 * 60, Reshma, 10, 4000),
       Rec("Studio Mat 57", Kwality, "Sunday", 11 * 60, Reshma, 9, 3000),
       Rec("Studio Recovery", Supreme, "Sunday", 17 * 60, Kabir, 8, 2000),
       Rec("Studio FIT", Kenkere, "Sunday", 18 * 60, Karanvir, 7, 2500),
       Rec("Studio HIIT", Kwality, "Sunday", 10 * 60, Reshma, 11, 7000),
       Rec("Studio Barre 57", Kenkere, "Monday", 9 * 60, Kabir, 9, 5000) >>

\* csvData made of at most MaxSunday records of the Sunday feed, in feed order.
SundayDatasets ==
    {[k \in DOMAIN q |-> SundayPool[q[k]]] :
        q \in {r \in SeqsUpTo(DOMAIN SundayPool, MaxSunday) :
                  \A k \in 1..(Len(r) - 1) : r[k] < r[k + 1]}}

\* Records of one slot (Kwality House, Sunday 10:00) around the candidate
\* filter: a plain one, a hosted session, a format not allowed at the
\* location, a format of Sunday's avoid list, two records of one format on
\* either side of the participant threshold, and a record below it.
FilterPool ==
    << Rec("Studio Barre 57", Kwality, "Sunday", 10 * 60, Reshma, 10, 4000),
       Rec("Studio Hosted Class", Kwality, "Sunday", 10 * 60, Reshma, 20, 9000),
       Rec("Studio powerCycle", Kwality, "Sunday", 10 * 60, Reshma, 12, 9000),
       Rec("Studio HIIT", Kwality, "Sunday", 10 * 60, Reshma, 11, 7000),
       Rec("Studio Mat 57", Kwality, "Sunday", 10 * 60, Kabir, 6, 3000),
       Rec("Studio Mat 57", Kwality, "Sunday", 10 * 60, Reshma, 2, 500),
       Rec("Studio FIT", Kwality, "Sunday", 10 * 60, Kabir, 4, 2500) >>

\* csvData made of at most MaxFilterRecords records of the slot, in feed order.
FilterDatasets ==
    {[k \in DOMAIN q |-> FilterPool[q[k]]] :
        q \in {r \in SeqsUpTo(DOMAIN FilterPool, MaxFilterRecords) :
                  \A k \in 1..(Len(r) - 1) : r[k] < r[k + 1]}}

CustomTeacherLists == {<<>>, <<[firstName |-> "Cauveri", lastName |-> "Rao"]>>}

OptionSets == [optimizationType : {"revenue", "attendance", "balanced"},
               targetDay : {NoDay, "Thursday"}]

(***************************************************************************)
(* PerformanceIndex                                                        *)
(***************************************************************************)
Range(seq) == {seq[i] : i \in DOMAIN seq}

Min(S) == CHOOSE x \in S : \A y \in S : x <= y

RECURSIVE SumParticipants(_, _)
SumParticipants(csv, S) ==
    IF S = {} THEN 0
    ELSE LET i == CHOOSE j \in S : TRUE
         IN  csv[i].participants + SumParticipants(csv, S \ {i})

RECURSIVE SumRevenue(_, _)
SumRevenue(csv, S) ==
    IF S = {} THEN 0
    ELSE LET i == CHOOSE j \in S : TRUE
         IN  csv[i].totalRevenue + SumRevenue(csv, S \ {i})

RECURSIVE Gcd(_, _)
Gcd(a, b) == IF b = 0 THEN a ELSE Gcd(b, a % b)

\* A quotient kept exact, in lowest terms.
Fraction(num, den) ==
    IF num = 0 THEN <<0, 1>> ELSE <<num \div Gcd(num, den), den \div Gcd(num, den)>>

\* parseFloat((total / count).toFixed(1)), in tenths; exact for count < 20,
\* where a tie x.x5 can only be a binary fraction.
ToFixed1(total, count) == (20 * total + count) \div (2 * count)

ExcludedTeacher(teacherName) ==
    NameIncludes(teacherName, "Nishanth") \/ NameIncludes(teacherName, "Saniya")

getUniqueTeachers(csv, custom) ==
    LET csvTeachers == {csv[i].teacherName : i \in {j \in DOMAIN csv : ~ExcludedTeacher(csv[j].teacherName)}}
        customTeacherNames == {<<custom[i].firstName, custom[i].lastName>> : i \in DOMAIN custom}
        defaultTopTeachers == {getDefaultTopClasses[i].teacher : i \in DOMAIN getDefaultTopClasses}
    IN  SelectSeq(SortedTeacherPool,
                  LAMBDA t : t \in csvTeachers \cup customTeacherNames \cup defaultTopTeachers)

\* (b.avgParticipants - a.avgParticipants) < 0 in the stable sort: a strictly
\* before b; averages are compared as sumA / countA > sumB / countB.
averageBefore(sumA, countA, firstA, sumB, countB, firstB) ==
    \/ sumA * countB > sumB * countA
    \/ sumA * countB = sumB * countA /\ firstA < firstB

\* Returns <<>> for null, <<teacher>> otherwise.
getBestTeacherForClass(csv, classFormat, location, day, time) ==
    LET defaults == {i \in DOMAIN getDefaultTopClasses :
                        /\ getDefaultTopClasses[i].classFormat = classFormat
                        /\ getDefaultTopClasses[i].location = location
                        /\ getDefaultTopClasses[i].day = day
                        /\ getDefaultTopClasses[i].time = time}
        relevantClasses == {i \in DOMAIN csv :
                        /\ csv[i].cleanedClass = classFormat
                        /\ csv[i].location = location
                        /\ csv[i].dayOfWeek = day
                        /\ csv[i].classTime = time
                        /\ ~isHostedClass(csv[i].cleanedClass)
                        /\ ~ExcludedTeacher(csv[i].teacherName)}
        of(t) == {i \in relevantClasses : csv[i].teacherName = t}
        before(a, b) ==
            averageBefore(SumParticipants(csv, of(a)), Cardinality(of(a)), Min(of(a)),
                          SumParticipants(csv, of(b)), Cardinality(of(b)), Min(of(b)))
    IN  IF defaults # {} THEN <<getDefaultTopClasses[Min(defaults)].teacher>>
        ELSE IF relevantClasses = {} THEN <<>>
        ELSE <<CHOOSE t \in {csv[i].teacherName : i \in relevantClasses} :
                  \A u \in {csv[i].teacherName : i \in relevantClasses} \ {t} : before(t, u)>>

\* One entry of a teacher's specialties, from the records it is built from.
specialtyOf(csv, classFormat, members) ==
    [classFormat |-> classFormat,
     avgParticipants |-> ToFixed1(SumParticipants(csv, members), Cardinality(members)),
     classCount |-> Cardinality(members)]

\* a strictly before b in the stable sort: most taught first, then by average.
specialtyBefore(a, firstA, b, firstB) ==
    \/ a.classCount > b.classCount
    \/ /\ a.classCount = b.classCount
       /\ \/ a.avgParticipants > b.avgParticipants
          \/ a.avgParticipants = b.avgParticipants /\ firstA < firstB

\* The specialties of one teacher: at most 5, most taught first, then by average.
getTeacherSpecialties(csv, teacher) ==
    LET of(f) == {i \in DOMAIN csv :
                    /\ ~isHostedClass(csv[i].cleanedClass)
                    /\ ~ExcludedTeacher(csv[i].teacherName)
                    /\ csv[i].teacherName = teacher
                    /\ csv[i].cleanedClass = f}
        before(a, b) ==
            specialtyBefore(specialtyOf(csv, a, of(a)), Min(of(a)),
                            specialtyOf(csv, b, of(b)), Min(of(b)))
        sortedOf[S \in SUBSET FormatPool] ==
            IF S = {} THEN <<>>
            ELSE <<CHOOSE g \in S : \A h \in S \ {g} : before(g, h)>>
                     \o sortedOf[S \ {CHOOSE g \in S : \A h \in S \ {g} : before(g, h)}]
    IN  [i \in 1..Min({5, Cardinality({f \in FormatPool : of(f) # {}})}) |->
            specialtyOf(csv, sortedOf[{f \in FormatPool : of(f) # {}}][i],
                        of(sortedOf[{f \in FormatPool : of(f) # {}}][i]))]

(***************************************************************************)
(* State                                                                   *)
(***************************************************************************)
VARIABLES
    csvData,                  \* input: historical records
    customTeachers,           \* input: custom teachers
    options,                  \* input: optimizationType, targetDay
    optimizedClasses,         \* the accumulating assignment set
    teacherHoursTracker,      \* weekly hours per teacher, in tenths
    teacherDailyHours,        \* hours per teacher and day, in tenths
    teacherShiftAssignments,  \* morning / evening flags per teacher and day
    teacherLocationsPerDay,   \* locations per teacher and day
    teacherDailyClassCount,   \* number of classes per teacher and day
    classesScheduledForDay,   \* Phase 2: running count of the day's classes
    phase,                    \* position in generateIntelligentSchedule
    cursor,                   \* loop indices of the current phase
    existingClasses,          \* validator: scheduledClasses argument
    proposedClass,            \* validator: newClass argument, <<>> before a call
    validation,               \* validator: returned object, <<>> before a call
    manualEdits,              \* number of manual additions to the generated schedule
    entropy,                  \* the run's Date.now() / Math.random() stream
    firstRun,                 \* <<>> or << the schedule an earlier run returned >>
    iterations,               \* optimizer modal: schedules the service answered with
    acceptedSchedule          \* <<>> or << the schedule handed to onOptimize >>

inputs == <<csvData, customTeachers, options>>
trackers == <<teacherHoursTracker, teacherDailyHours, teacherShiftAssignments,
              teacherLocationsPerDay, teacherDailyClassCount>>
validatorVars == <<existingClasses, proposedClass, validation>>
sessionVars == <<manualEdits, entropy, firstRun, iterations, acceptedSchedule>>
vars == <<csvData, customTeachers, options, optimizedClasses, teacherHoursTracker,
          teacherDailyHours, teacherShiftAssignments, teacherLocationsPerDay,
          teacherDailyClassCount, classesScheduledForDay, phase, cursor,
          existingClasses, proposedClass, validation, manualEdits, entropy, firstRun,
          iterations, acceptedSchedule>>

allTeachers == getUniqueTeachers(csvData, customTeachers)

days == IF options.targetDay # NoDay THEN <<options.targetDay>> ELSE AllDays

Cursor(seed, teacher, spec, loc, day, time, attempt, stage) ==
    [seed |-> seed, teacher |-> teacher, spec |-> spec, loc |-> loc, day |-> day,
     time |-> time, attempt |-> attempt, stage |-> stage, mode |-> "none"]

(***************************************************************************)
(* CandidateRanker                                                         *)
(***************************************************************************)
\* Fault model: the filter without the test of the day's avoid list.
slotDataNoAvoidTest(location, day, time, guidelines) ==
    {i \in DOMAIN csvData :
        /\ csvData[i].location = location
        /\ csvData[i].dayOfWeek = day
        /\ csvData[i].classTime = time
        /\ ~isHostedClass(csvData[i].cleanedClass)
        /\ isClassAllowedAtLocation(csvData[i].cleanedClass, location)
        /\ csvData[i].participants >= 5}

\* The filter of getBestClassForSlot: indices of the records kept for the slot.
slotData(location, day, time, guidelines) ==
    {i \in DOMAIN csvData :
        /\ csvData[i].location = location
        /\ csvData[i].dayOfWeek = day
        /\ csvData[i].classTime = time
        /\ ~isHostedClass(csvData[i].cleanedClass)
        /\ isClassAllowedAtLocation(csvData[i].cleanedClass, location)
        /\ csvData[i].cleanedClass \notin guidelines.avoid
        /\ csvData[i].participants >= 5}

\* optimizationScore times 10000 * count, so that scores compare as integers:
\* score(a) > score(b) iff Num(a) * count(b) > Num(b) * count(a).
optimizationScoreNum(participants, revenue) ==
    CASE options.optimizationType = "revenue" -> 7 * revenue + 3000 * participants
      [] options.optimizationType = "attendance" -> 8000 * participants + 2 * revenue
      [] OTHER -> 5000 * participants + 5 * revenue

\* Fault model: the comparator that orders by optimizationScore alone.
slotBeforeScoreOnly(priorityA, numA, countA, firstA, priorityB, numB, countB, firstB) ==
    \/ numA * countB > numB * countA
    \/ numA * countB = numB * countA /\ firstA < firstB

\* a strictly before b in the stable sort of getBestClassForSlot: priority
\* formats first, then by optimizationScore (numA / countA against numB / countB).
slotBefore(priorityA, numA, countA, firstA, priorityB, numB, countB, firstB) ==
    \/ priorityA /\ ~priorityB
    \/ /\ priorityA = priorityB
       /\ \/ numA * countB > numB * countA
          \/ numA * countB = numB * countA /\ firstA < firstB

\* The object returned for the winning format, from its records.
slotWinner(classFormat, members, guidelines) ==
    [classFormat |-> classFormat,
     avgParticipants |-> ToFixed1(SumParticipants(csvData, members), Cardinality(members)),
     avgRevenue |-> Fraction(SumRevenue(csvData, members), Cardinality(members)),
     count |-> Cardinality(members),
     isPriority |-> classFormat \in guidelines.priority]

\* The winner among the kept records (a non-empty set of indices of csvData).
bestOfSlot(kept, guidelines) ==
    LET of(f) == {i \in kept : csvData[i].cleanedClass = f}
        num(f) == optimizationScoreNum(SumParticipants(csvData, of(f)), SumRevenue(csvData, of(f)))
        before(a, b) ==
            slotBefore(a \in guidelines.priority, num(a), Cardinality(of(a)), Min(of(a)),
                       b \in guidelines.priority, num(b), Cardinality(of(b)), Min(of(b)))
    IN  CHOOSE f \in {csvData[i].cleanedClass : i \in kept} :
            \A g \in {csvData[i].cleanedClass : i \in kept} \ {f} : before(f, g)

winnerOfSlot(kept, classFormat, guidelines) ==
    slotWinner(classFormat, {i \in kept : csvData[i].cleanedClass = classFormat}, guidelines)

keptOrNull(kept, guidelines) ==
    IF kept = {} THEN <<>> ELSE <<winnerOfSlot(kept, bestOfSlot(kept, guidelines), guidelines)>>

\* Returns <<>> for null, <<best>> otherwise.
getBestClassForSlot(location, day, time, guidelines) ==
    keptOrNull(slotData(location, day, time, guidelines), guidelines)

(***************************************************************************)
(* ConstraintEngine: instructor eligibility against the trackers           *)
(***************************************************************************)
isNewTrainer(teacherName) == \E name \in newTrainers : NameIncludes(teacherName, name)
isSeniorTrainer(teacherName) == \E name \in seniorTrainers : NameIncludes(teacherName, name)

\* Fault model: the weekly cap of 15 hours for every tier.
maxWeeklyHoursFlat(teacherName) == 15

maxWeeklyHours(teacherName) == IF isNewTrainer(teacherName) THEN 10 ELSE 15

\* Fault model: the tier check without the senior requirement on advanced
\* formats.
tierFormatCheckWhitelistOnly(teacherName, classFormat) ==
    isNewTrainer(teacherName) => classFormat \in allowedFormats

\* New trainers teach only the whitelist; advanced formats need a senior.
tierFormatCheck(teacherName, classFormat) ==
    /\ isNewTrainer(teacherName) => classFormat \in allowedFormats
    /\ ~(classFormat \in advancedFormats /\ ~isSeniorTrainer(teacherName))

\* Fault model: the hour check without the weekly comparison.
hourLimitCheckDailyOnly(teacherName, day, duration) ==
    ~(teacherDailyHours[teacherName][day] * 6 + duration > 4 * 60)

\* Trackers are tenths of an hour, durations minutes: compare in minutes.
hourLimitCheck(teacherName, day, duration) ==
    ~ \/ teacherHoursTracker[teacherName] * 6 + duration > maxWeeklyHours(teacherName) * 60
      \/ teacherDailyHours[teacherName][day] * 6 + duration > 4 * 60

dailyClassLimitCheck(teacherName, day) == ~(teacherDailyClassCount[teacherName][day] >= 4)

\* Fault model: the consecutive check rejecting a run of two.
consecutiveCheckRunOfTwo(teacherName, day, time) ==
    ~(getConsecutiveClassesCount(optimizedClasses, teacherName, day, time) > 1)

consecutiveCheck(teacherName, day, time) ==
    ~(getConsecutiveClassesCount(optimizedClasses, teacherName, day, time) > 2)

\* Fault model: the cross-location check comparing the list length with 1.
crossLocationCheckOffByOne(teacherName, day, location) ==
    LET teacherDayLocations == teacherLocationsPerDay[teacherName][day]
    IN  ~(Len(teacherDayLocations) > 1 /\ location \notin Range(teacherDayLocations))

crossLocationCheck(teacherName, day, location) ==
    LET teacherDayLocations == teacherLocationsPerDay[teacherName][day]
    IN  ~(Len(teacherDayLocations) > 0 /\ location \notin Range(teacherDayLocations))

\* Fault model: the days-off check with the threshold one day higher.
daysOffCheckSixDays(teacherName, day) ==
    LET currentWorkingDays ==
            Cardinality({d \in DOMAIN teacherDailyHours[teacherName] :
                            teacherDailyHours[teacherName][d] > 0})
    IN  ~(currentWorkingDays >= 6 /\ teacherDailyHours[teacherName][day] = 0)

daysOffCheck(teacherName, day) ==
    LET currentWorkingDays ==
            Cardinality({d \in DOMAIN teacherDailyHours[teacherName] :
                            teacherDailyHours[teacherName][d] > 0})
    IN  ~(currentWorkingDays >= 5 /\ teacherDailyHours[teacherName][day] = 0)

canAssignTeacher(teacherName, day, time, duration, classFormat, location) ==
    /\ tierFormatCheck(teacherName, classFormat)
    /\ hourLimitCheck(teacherName, day, duration)
    /\ dailyClassLimitCheck(teacherName, day)
    /\ consecutiveCheck(teacherName, day, time)
    /\ crossLocationCheck(teacherName, day, location)
    /\ daysOffCheck(teacherName, day)

(***************************************************************************)
(* InstructorSelector                                                      *)
(***************************************************************************)
\* The score of one candidate, given the historic best teacher of the slot.
scoreGiven(teacher, location, day, time, historicBestTeacher) ==
      (IF historicBestTeacher = <<teacher>> THEN 100 ELSE 0)
    + (IF isPeakHour(time) /\ isSeniorTrainer(teacher) THEN 50 ELSE 0)
    + (IF location \in Range(teacherLocationsPerDay[teacher][day]) THEN 40 ELSE 0)
    + (IF isMorningSlot(time) /\ ~teacherShiftAssignments[teacher][day].evening THEN 30 ELSE 0)
    + (IF ~isMorningSlot(time) /\ ~teacherShiftAssignments[teacher][day].morning THEN 30 ELSE 0)
    + (IF teacherHoursTracker[teacher] < ((IF isNewTrainer(teacher) THEN 10 ELSE 15) - 3) * 10
       THEN 20 ELSE 0)
    + (IF isMorningSlot(time) /\ teacherShiftAssignments[teacher][day].morning THEN 15 ELSE 0)
    + (IF ~isMorningSlot(time) /\ teacherShiftAssignments[teacher][day].evening THEN 15 ELSE 0)

teacherScore(teacher, classFormat, location, day, time) ==
    scoreGiven(teacher, location, day, time,
               getBestTeacherForClass(csvData, classFormat, location, day, time))

\* Fault model: the sort that puts the later of two equal scores first.
notAfterLastOfEqual(scoreI, i, scoreJ, j) == scoreI > scoreJ \/ (scoreI = scoreJ /\ i >= j)

\* Candidate i is not after candidate j in the stable descending sort.
notAfter(scoreI, i, scoreJ, j) == scoreI > scoreJ \/ (scoreI = scoreJ /\ i <= j)

\* The first of the highest scores in the order of the candidates.
topCandidate(candidateTeachers, classFormat, location, day, time) ==
    CHOOSE i \in DOMAIN candidateTeachers :
        \A j \in DOMAIN candidateTeachers :
            notAfter(teacherScore(candidateTeachers[i], classFormat, location, day, time), i,
                     teacherScore(candidateTeachers[j], classFormat, location, day, time), j)

bestOrNull(candidateTeachers, classFormat, location, day, time) ==
    IF candidateTeachers = <<>> THEN <<>>
    ELSE <<candidateTeachers[topCandidate(candidateTeachers, classFormat, location, day, time)]>>

\* Returns <<>> for null, <<teacher>> otherwise.
findBestTeacherForClass(classFormat, location, day, time) ==
    bestOrNull(SelectSeq(allTeachers,
                         LAMBDA teacher : canAssignTeacher(teacher, day, time,
                                              getClassDuration(classFormat), classFormat, location)),
               classFormat, location, day, time)

(***************************************************************************)
(* ScheduleBuilder: commit                                                 *)
(***************************************************************************)
\* Tracker values t (tenths) for which t + 0.75 rounds down under
\* parseFloat((t + 0.75).toFixed(1)) in IEEE-754 double arithmetic.
RoundsDown == {1, 2, 4, 7, 9, 12, 13, 14, 18, 19, 23, 24, 28, 29, 33, 36, 38, 41, 43,
               46, 48, 51, 53, 56, 58, 61, 63, 66, 68, 71, 76, 77, 81, 82, 86, 87, 91,
               92, 96, 97, 101, 102, 106, 107, 111, 112, 116, 117, 121, 122, 126, 127,
               131, 132, 136, 137, 141, 142, 146, 147}

\* parseFloat((hours + parseFloat(duration)).toFixed(1)), in tenths.
addHours(tenths, duration) ==
    CASE duration = 60 -> tenths + 10
      [] duration = 30 -> tenths + 5
      [] duration = 45 -> IF tenths \in RoundsDown THEN tenths + 7 ELSE tenths + 8

ClassData(classFormat, location, day, time, avgParticipants, avgRevenue) ==
    [classFormat |-> classFormat, location |-> location, day |-> day, time |-> time,
     avgParticipants |-> avgParticipants, avgRevenue |-> avgRevenue]

\* The capacity check at the head of assignClass.
assignSucceeds(classData) ==
    canAssignClassToStudio(optimizedClasses,
        [day |-> classData.day, time |-> classData.time, location |-> classData.location,
         duration |-> getClassDuration(classData.classFormat)])

\* The object pushed by assignClass (participants in tenths).  The Date.now()
\* and Math.random() parts of the id are the values the run's entropy stream
\* gives to this call, which is the (Len(optimizedClasses) + 1)-th push.
newScheduledClass(classData, teacher) ==
    [id |-> <<classData.location, classData.day, classData.time, entropy,
              Len(optimizedClasses) + 1>>,
     day |-> classData.day,
     time |-> classData.time,
     location |-> classData.location,
     classFormat |-> classData.classFormat,
     teacherFirstName |-> teacher[1],
     teacherLastName |-> JoinWords(Tail(teacher)),
     duration |-> getClassDuration(classData.classFormat),
     participants |-> classData.avgParticipants,
     revenue |-> classData.avgRevenue,
     isTopPerformer |-> classData.avgParticipants > 60,
     isPrivate |-> FALSE]

\* Fault model: the commit without the daily class count increment.
nextDailyClassCountStale(teacher, day) == teacherDailyClassCount

nextDailyClassCount(teacher, day) ==
    [teacherDailyClassCount EXCEPT ![teacher][day] = @ + 1]

nextLocationsPerDay(teacher, day, location) ==
    IF location \notin Range(teacherLocationsPerDay[teacher][day])
    THEN [teacherLocationsPerDay EXCEPT ![teacher][day] = Append(@, location)]
    ELSE teacherLocationsPerDay

nextShiftAssignments(teacher, day, time) ==
    IF isMorningSlot(time)
    THEN [teacherShiftAssignments EXCEPT ![teacher][day].morning = TRUE]
    ELSE IF isEveningSlot(time)
    THEN [teacherShiftAssignments EXCEPT ![teacher][day].evening = TRUE]
    ELSE teacherShiftAssignments

Untouched == UNCHANGED <<optimizedClasses, teacherHoursTracker, teacherDailyHours,
                         teacherShiftAssignments, teacherLocationsPerDay, teacherDailyClassCount>>

\* Fault model: the commit that replaces what the slot already holds.
assignClassOverwritesSlot(classData, teacher) ==
    LET duration == getClassDuration(classData.classFormat)
    IN  IF ~assignSucceeds(classData)
        THEN Untouched
        ELSE /\ optimizedClasses' =
                    Append(SelectSeq(optimizedClasses,
                                     LAMBDA cls : ~(/\ cls.location = classData.location
                                                    /\ cls.day = classData.day
                                                    /\ cls.time = classData.time)),
                           newScheduledClass(classData, teacher))
             /\ teacherHoursTracker' =
                    [teacherHoursTracker EXCEPT ![teacher] = addHours(@, duration)]
             /\ teacherDailyHours' =
                    [teacherDailyHours EXCEPT ![teacher][classData.day] = addHours(@, duration)]
             /\ teacherDailyClassCount' = nextDailyClassCount(teacher, classData.day)
             /\ teacherLocationsPerDay' =
                    nextLocationsPerDay(teacher, classData.day, classData.location)
             /\ teacherShiftAssignments' =
                    nextShiftAssignments(teacher, classData.day, classData.time)

assignClass(classData, teacher) ==
    LET duration == getClassDuration(classData.classFormat)
    IN  IF ~assignSucceeds(classData)
        THEN Untouched
        ELSE /\ optimizedClasses' = Append(optimizedClasses, newScheduledClass(classData, teacher))
             /\ teacherHoursTracker' =
                    [teacherHoursTracker EXCEPT ![teacher] = addHours(@, duration)]
             /\ teacherDailyHours' =
                    [teacherDailyHours EXCEPT ![teacher][classData.day] = addHours(@, duration)]
             /\ teacherDailyClassCount' = nextDailyClassCount(teacher, classData.day)
             /\ teacherLocationsPerDay' =
                    nextLocationsPerDay(teacher, classData.day, classData.location)
             /\ teacherShiftAssignments' =
                    nextShiftAssignments(teacher, classData.day, classData.time)

(***************************************************************************)
(* ScheduleBuilder: construction                                           *)
(***************************************************************************)
TeacherSet == Range(SortedTeacherPool)

Init ==
    /\ csvData \in Datasets
    /\ customTeachers \in CustomTeacherLists
    /\ options \in OptionSets
    /\ optimizedClasses = <<>>
    /\ teacherHoursTracker = [t \in Range(allTeachers) |-> 0]
    /\ teacherDailyHours = [t \in Range(allTeachers) |-> [d \in Range(days) |-> 0]]
    /\ teacherShiftAssignments =
           [t \in Range(allTeachers) |-> [d \in Range(days) |-> [morning |-> FALSE, evening |-> FALSE]]]
    /\ teacherLocationsPerDay = [t \in Range(allTeachers) |-> [d \in Range(days) |-> <<>>]]
    /\ teacherDailyClassCount = [t \in Range(allTeachers) |-> [d \in Range(days) |-> 0]]
    /\ classesScheduledForDay = 0
    /\ phase = "phase0"
    /\ cursor = Cursor(1, 0, 0, 0, 0, 0, 0, "seed")
    /\ existingClasses = <<>>
    /\ proposedClass = <<>>
    /\ validation = <<>>
    /\ manualEdits = 0
    /\ entropy = 1
    /\ firstRun = <<>>
    /\ iterations = <<>>
    /\ acceptedSchedule = <<>>

\* The locals of generateIntelligentSchedule at its start, for given inputs.
FreshRun ==
    /\ optimizedClasses = <<>>
    /\ teacherHoursTracker = [t \in Range(allTeachers) |-> 0]
    /\ teacherDailyHours = [t \in Range(allTeachers) |-> [d \in Range(days) |-> 0]]
    /\ teacherShiftAssignments =
           [t \in Range(allTeachers) |-> [d \in Range(days) |-> [morning |-> FALSE, evening |-> FALSE]]]
    /\ teacherLocationsPerDay = [t \in Range(allTeachers) |-> [d \in Range(days) |-> <<>>]]
    /\ teacherDailyClassCount = [t \in Range(allTeachers) |-> [d \in Range(days) |-> 0]]
    /\ classesScheduledForDay = 0
    /\ phase = "phase0"
    /\ cursor = Cursor(1, 0, 0, 0, 0, 0, 0, "seed")
    /\ existingClasses = <<>>
    /\ proposedClass = <<>>
    /\ validation = <<>>
    /\ manualEdits = 0
    /\ entropy = 1
    /\ firstRun = <<>>
    /\ iterations = <<>>
    /\ acceptedSchedule = <<>>

\* Phase 0: one must-run tuple of getDefaultTopClasses.
Phase0 ==
    /\ phase = "phase0"
    /\ LET defaultClass == getDefaultTopClasses[cursor.seed]
       IN  IF options.targetDay # NoDay /\ defaultClass.day # options.targetDay
           THEN Untouched
           ELSE IF canAssignTeacher(defaultClass.teacher, defaultClass.day, defaultClass.time,
                                    getClassDuration(defaultClass.classFormat),
                                    defaultClass.classFormat, defaultClass.location)
           THEN assignClass(ClassData(defaultClass.classFormat, defaultClass.location,
                                      defaultClass.day, defaultClass.time,
                                      defaultClass.avgParticipants * 10, <<0, 1>>),
                            defaultClass.teacher)
           ELSE Untouched
    /\ IF cursor.seed < Len(getDefaultTopClasses)
       THEN /\ cursor' = [cursor EXCEPT !.seed = @ + 1]
            /\ phase' = phase
       ELSE /\ cursor' = Cursor(0, 0, 0, 0, 1, 0, 0, "day")
            /\ phase' = "phase1"
    /\ UNCHANGED <<inputs, sessionVars, classesScheduledForDay, validatorVars>>

ClassesOnDay(classes, day) == Cardinality({i \in DOMAIN classes : classes[i].day = day})

\* Phase 1: the commit of the slot's best class, if a teacher is found.
phase1Commit(day, bestClass, bestTeacher) ==
    IF bestTeacher = <<>>
    THEN Untouched
    ELSE assignClass(ClassData(bestClass.classFormat, Kwality, day, 7 * 60 + 30,
                               bestClass.avgParticipants, bestClass.avgRevenue),
                     bestTeacher[1])

\* Fault model: the body of the day loop without the test for an existing
\* 07:30 class.
phase1SlotNoExistingTest(day, bestClass) ==
    IF \/ day \in {"Saturday", "Sunday"}
       \/ bestClass = <<>>
    THEN Untouched
    ELSE phase1Commit(day, bestClass[1],
                      findBestTeacherForClass(bestClass[1].classFormat, Kwality, day, 7 * 60 + 30))

\* Phase 1: the body of the day loop.
phase1Slot(day, bestClass) ==
    IF \/ day \in {"Saturday", "Sunday"}
       \/ \E i \in DOMAIN optimizedClasses :
              /\ optimizedClasses[i].day = day
              /\ optimizedClasses[i].time = 7 * 60 + 30
              /\ optimizedClasses[i].location = Kwality
       \/ bestClass = <<>>
    THEN Untouched
    ELSE phase1Commit(day, bestClass[1],
                      findBestTeacherForClass(bestClass[1].classFormat, Kwality, day, 7 * 60 + 30))

\* Phase 1: the 07:30 slot at Kwality House of one day of the run.
Phase1 ==
    /\ phase = "phase1"
    /\ phase1Slot(days[cursor.day],
                  getBestClassForSlot(Kwality, days[cursor.day], 7 * 60 + 30,
                                      getDayGuidelines(days[cursor.day])))
    /\ IF cursor.day < Len(days)
       THEN /\ cursor' = [cursor EXCEPT !.day = @ + 1]
            /\ phase' = phase
            /\ UNCHANGED classesScheduledForDay
       ELSE /\ cursor' = Cursor(0, 0, 0, 1, 1, 1, 0, "attempt")
            /\ phase' = "phase2"
            /\ classesScheduledForDay' = ClassesOnDay(optimizedClasses', days[1])
    /\ UNCHANGED <<inputs, sessionVars, validatorVars>>

\* Phase 2: the number of classes to try for a slot.
targetClasses(location, time) ==
    IF options.optimizationType = "revenue" /\ isPeakHour(time)
    THEN getMaxParallelClasses(location)
    ELSE IF options.optimizationType = "attendance"
    THEN (IF getMaxParallelClasses(location) < 2 THEN getMaxParallelClasses(location) ELSE 2)
    ELSE IF location = Kwality /\ time \in {7 * 60 + 30, 9 * 60, 11 * 60, 18 * 60, 19 * 60 + 15}
    THEN 2
    ELSE IF location = Supreme /\ time \in {8 * 60, 9 * 60, 10 * 60, 18 * 60, 19 * 60}
    THEN 2
    ELSE 1

maxClassesForDay(day) ==
    IF day = "Sunday" THEN 5 ELSE Len(getAvailableTimeSlots(day)) * Len(locations)

\* Phase 2 loop control.  exit is how the attempt ended: "attempt" (go on with
\* the next attempt), "time" (leave the attempt loop), "location" (leave the
\* time loop); count is the day's running count after the attempt.
phase2Advance(exit, count, day, location, slots) ==
    IF exit = "attempt" /\ cursor.attempt + 1 < targetClasses(location, slots[cursor.time])
    THEN /\ cursor' = [cursor EXCEPT !.attempt = @ + 1]
         /\ phase' = phase
         /\ classesScheduledForDay' = count
    ELSE IF exit # "location" /\ cursor.time < Len(slots)
    THEN /\ cursor' = [cursor EXCEPT !.time = @ + 1, !.attempt = 0]
         /\ phase' = phase
         /\ classesScheduledForDay' = count
    ELSE IF cursor.loc < Len(locations)
    THEN /\ cursor' = [cursor EXCEPT !.loc = @ + 1, !.time = 1, !.attempt = 0]
         /\ phase' = phase
         /\ classesScheduledForDay' = count
    ELSE IF cursor.day < Len(days)
    THEN /\ cursor' = [cursor EXCEPT !.day = @ + 1, !.loc = 1, !.time = 1, !.attempt = 0]
         /\ phase' = phase
         /\ classesScheduledForDay' = ClassesOnDay(optimizedClasses', days[cursor.day + 1])
    ELSE /\ cursor' = Cursor(0, 1, 0, 0, 0, 0, 0, "teacher")
         /\ phase' = "phase3"
         /\ classesScheduledForDay' = 0

Phase2Goto(exit, count) ==
    phase2Advance(exit, count, days[cursor.day], locations[cursor.loc],
                  getAvailableTimeSlots(days[cursor.day]))

\* What one attempt does: whether it commits, what, and how the loops go on.
Attempt(commit, classData, teacher, exit, count) ==
    [commit |-> commit, classData |-> classData, teacher |-> teacher, exit |-> exit, count |-> count]

NoCommit(exit) == Attempt(FALSE, <<>>, <<>>, exit, classesScheduledForDay)

\* The attempt once a class and a teacher are chosen: assignClass, then count
\* and go on, or break out of the attempt loop when it returns false.
phase2Commit(classData, bestTeacher) ==
    IF bestTeacher = <<>>
    THEN NoCommit("attempt")
    ELSE IF assignSucceeds(classData)
    THEN Attempt(TRUE, classData, bestTeacher[1], "attempt", classesScheduledForDay + 1)
    ELSE NoCommit("time")

\* Fault model: the attempt without the test for a format already in the slot.
phase2AttemptNoFormatTest(day, location, time, bestClass) ==
    IF ~canAssignClassToStudio(optimizedClasses,
            [day |-> day, time |-> time, location |-> location, duration |-> 60])
    THEN NoCommit("time")
    ELSE IF bestClass = <<>>
    THEN NoCommit("attempt")
    ELSE phase2Commit(ClassData(bestClass[1].classFormat, location, day, time,
                                bestClass[1].avgParticipants, bestClass[1].avgRevenue),
                      findBestTeacherForClass(bestClass[1].classFormat, location, day, time))

\* The attempt from the capacity test of the slot on.
phase2Attempt(day, location, time, bestClass) ==
    IF ~canAssignClassToStudio(optimizedClasses,
            [day |-> day, time |-> time, location |-> location, duration |-> 60])
    THEN NoCommit("time")
    ELSE IF bestClass = <<>>
    THEN NoCommit("attempt")
    ELSE IF \E i \in DOMAIN optimizedClasses :
                /\ optimizedClasses[i].location = location
                /\ optimizedClasses[i].day = day
                /\ optimizedClasses[i].time = time
                /\ optimizedClasses[i].classFormat = bestClass[1].classFormat
    THEN NoCommit("attempt")
    ELSE phase2Commit(ClassData(bestClass[1].classFormat, location, day, time,
                                bestClass[1].avgParticipants, bestClass[1].avgRevenue),
                      findBestTeacherForClass(bestClass[1].classFormat, location, day, time))

\* Attempt 0 starts with the day cap test at the head of the time loop.
phase2Slot(day, location, time) ==
    IF cursor.attempt = 0 /\ classesScheduledForDay >= maxClassesForDay(day)
    THEN NoCommit("location")
    ELSE phase2Attempt(day, location, time,
                       getBestClassForSlot(location, day, time, getDayGuidelines(day)))

phase2Apply(attempt) ==
    /\ IF attempt.commit THEN assignClass(attempt.classData, attempt.teacher) ELSE Untouched
    /\ Phase2Goto(attempt.exit, attempt.count)

\* Phase 2: one attempt at one (day, location, time) slot.
Phase2 ==
    /\ phase = "phase2"
    /\ UNCHANGED <<inputs, sessionVars, validatorVars>>
    /\ phase2Apply(phase2Slot(days[cursor.day], locations[cursor.loc],
                              getAvailableTimeSlots(days[cursor.day])[cursor.time]))

(***************************************************************************)
(* Phase 3: instructor top-up                                              *)
(***************************************************************************)
targetHours(teacher) == IF isNewTrainer(teacher) THEN 10 ELSE 15

\* Which branch of Phase 3 a teacher takes, from the hours at the loop head.
phase3Mode(teacher) ==
    IF options.optimizationType = "revenue"
          /\ teacherHoursTracker[teacher] < (targetHours(teacher) - 2) * 10
    THEN "revenue"
    ELSE IF teacherHoursTracker[teacher] < (targetHours(teacher) - 1) * 10
    THEN "standard"
    ELSE "skip"

\* teacherSpecialties.filter(avgParticipants > 8).slice(0, 2)
highRevenueSpecialties(teacherSpecialties) ==
    SubSeq(SelectSeq(teacherSpecialties, LAMBDA spec : spec.avgParticipants > 80), 1,
           Min({2, Len(SelectSeq(teacherSpecialties, LAMBDA spec : spec.avgParticipants > 80))}))

specialtiesOfMode(teacherSpecialties, mode) ==
    CASE mode = "revenue" -> highRevenueSpecialties(teacherSpecialties)
      [] mode = "standard" -> SubSeq(teacherSpecialties, 1, Min({3, Len(teacherSpecialties)}))
      [] OTHER -> <<>>

\* The specialties a branch iterates over.
phase3Specialties(teacher, mode) ==
    specialtiesOfMode(getTeacherSpecialties(csvData, teacher), mode)

\* The time slots a branch scans on a day.
phase3Slots(mode, day) ==
    IF mode = "revenue"
    THEN SelectSeq(getAvailableTimeSlots(day), isPeakHour)
    ELSE getAvailableTimeSlots(day)

\* Fault model: the teacher loop that starts over after the last teacher.
Phase3NextTeacherStartsOver ==
    IF cursor.teacher < Len(allTeachers)
    THEN /\ cursor' = Cursor(0, cursor.teacher + 1, 0, 0, 0, 0, 0, "teacher")
         /\ phase' = phase
    ELSE /\ cursor' = Cursor(0, 1, 0, 0, 0, 0, 0, "teacher")
         /\ phase' = phase

Phase3NextTeacher ==
    IF cursor.teacher < Len(allTeachers)
    THEN /\ cursor' = Cursor(0, cursor.teacher + 1, 0, 0, 0, 0, 0, "teacher")
         /\ phase' = phase
    ELSE /\ cursor' = Cursor(0, 0, 0, 0, 0, 0, 0, "done")
         /\ phase' = "done"

Phase3NextSpecialty ==
    IF cursor.spec < Len(phase3Specialties(allTeachers[cursor.teacher], cursor.mode))
    THEN /\ cursor' = [cursor EXCEPT !.spec = @ + 1, !.loc = 0, !.day = 0, !.stage = "specialty"]
         /\ phase' = phase
    ELSE Phase3NextTeacher

Phase3NextLocation ==
    IF cursor.loc < Len(locations)
    THEN /\ cursor' = [cursor EXCEPT !.loc = @ + 1, !.day = 0, !.stage = "location"]
         /\ phase' = phase
    ELSE Phase3NextSpecialty

Phase3NextDay ==
    IF cursor.day < Len(days)
    THEN /\ cursor' = [cursor EXCEPT !.day = @ + 1, !.stage = "day"]
         /\ phase' = phase
    ELSE Phase3NextLocation

\* Head of the teacher loop: choose the branch (kept in cursor.mode).
Phase3Teacher ==
    /\ phase = "phase3" /\ cursor.stage = "teacher"
    /\ IF phase3Specialties(allTeachers[cursor.teacher], phase3Mode(allTeachers[cursor.teacher])) = <<>>
       THEN Phase3NextTeacher
       ELSE /\ cursor' = [cursor EXCEPT !.spec = 1, !.mode = phase3Mode(allTeachers[cursor.teacher]),
                                        !.stage = "specialty"]
            /\ phase' = phase
    /\ Untouched
    /\ UNCHANGED <<inputs, sessionVars, classesScheduledForDay, validatorVars>>

\* Head of the specialty loop: stop once the target is reached.
Phase3Specialty ==
    /\ phase = "phase3" /\ cursor.stage = "specialty"
    /\ IF teacherHoursTracker[allTeachers[cursor.teacher]]
             >= targetHours(allTeachers[cursor.teacher]) * 10
       THEN Phase3NextTeacher
       ELSE /\ cursor' = [cursor EXCEPT !.loc = 1, !.stage = "location"]
            /\ phase' = phase
    /\ Untouched
    /\ UNCHANGED <<inputs, sessionVars, classesScheduledForDay, validatorVars>>

\* Fault model: the location loop without the format/location test.
phase3LocationUnchecked(classFormat, location) == TRUE

\* Head of the location loop: skip a location the format is not allowed at.
phase3LocationAllowed(classFormat, location) == isClassAllowedAtLocation(classFormat, location)

Phase3Location ==
    /\ phase = "phase3" /\ cursor.stage = "location"
    /\ IF ~phase3LocationAllowed(
               phase3Specialties(allTeachers[cursor.teacher], cursor.mode)[cursor.spec].classFormat,
               locations[cursor.loc])
       THEN Phase3NextLocation
       ELSE /\ cursor' = [cursor EXCEPT !.day = 1, !.stage = "day"]
            /\ phase' = phase
    /\ Untouched
    /\ UNCHANGED <<inputs, sessionVars, classesScheduledForDay, validatorVars>>

\* Fault model: the scan without the test for the format already in the slot.
phase3FitsNoFormatTest(teacher, classFormat, location, day, time) ==
    /\ canAssignClassToStudio(optimizedClasses,
           [day |-> day, time |-> time, location |-> location,
            duration |-> getClassDuration(classFormat)])
    /\ canAssignTeacher(teacher, day, time, getClassDuration(classFormat), classFormat, location)
    /\ assignSucceeds(ClassData(classFormat, location, day, time, 0, <<0, 1>>))

\* A slot of the scan at which the specialty can be committed.
phase3Fits(teacher, classFormat, location, day, time) ==
    /\ canAssignClassToStudio(optimizedClasses,
           [day |-> day, time |-> time, location |-> location,
            duration |-> getClassDuration(classFormat)])
    /\ ~ \E i \in DOMAIN optimizedClasses :
            /\ optimizedClasses[i].location = location
            /\ optimizedClasses[i].day = day
            /\ optimizedClasses[i].time = time
            /\ optimizedClasses[i].classFormat = classFormat
    /\ canAssignTeacher(teacher, day, time, getClassDuration(classFormat), classFormat, location)
    /\ assignSucceeds(ClassData(classFormat, location, day, time, 0, <<0, 1>>))

firstOrNull(slots, found) == IF found = {} THEN <<>> ELSE <<slots[Min(found)]>>

\* The first slot of the day at which the specialty can be committed, or <<>>.
phase3Placement(teacher, classFormat, location, day, slots) ==
    firstOrNull(slots, {i \in DOMAIN slots :
                           phase3Fits(teacher, classFormat, location, day, slots[i])})

\* Fault model: the scan that counts a class for the day although no slot
\* of the day passed the checks.
phase3CommitCountsAttempt(teacher, specialty, location, day, placement) ==
    IF placement = <<>>
    THEN /\ teacherDailyClassCount' = nextDailyClassCount(teacher, day)
         /\ UNCHANGED <<optimizedClasses, teacherHoursTracker, teacherDailyHours,
                        teacherShiftAssignments, teacherLocationsPerDay>>
    ELSE assignClass(ClassData(specialty.classFormat, location, day, placement[1],
                               specialty.avgParticipants, <<0, 1>>),
                     teacher)

phase3Commit(teacher, specialty, location, day, placement) ==
    IF placement = <<>>
    THEN Untouched
    ELSE assignClass(ClassData(specialty.classFormat, location, day, placement[1],
                               specialty.avgParticipants, <<0, 1>>),
                     teacher)

\* The body of the day loop: the day-level skip, then the scan of the slots.
phase3Scan(teacher, specialty, location, day) ==
    IF \/ teacherDailyHours[teacher][day] >= 40
       \/ teacherDailyClassCount[teacher][day] >= 4
    THEN Untouched
    ELSE phase3Commit(teacher, specialty, location, day,
                      phase3Placement(teacher, specialty.classFormat, location, day,
                                      phase3Slots(cursor.mode, day)))

\* One day of the day loop: the scan of the day's slots up to the first commit.
Phase3Day ==
    /\ phase = "phase3" /\ cursor.stage = "day"
    /\ phase3Scan(allTeachers[cursor.teacher],
                  phase3Specialties(allTeachers[cursor.teacher], cursor.mode)[cursor.spec],
                  locations[cursor.loc], days[cursor.day])
    /\ Phase3NextDay
    /\ UNCHANGED <<inputs, sessionVars, classesScheduledForDay, validatorVars>>

Next == Phase0 \/ Phase1 \/ Phase2 \/ Phase3Teacher \/ Phase3Specialty \/ Phase3Location \/ Phase3Day

Spec == Init /\ [][Next]_vars

RECURSIVE SumDurations(_, _)
SumDurations(classes, S) ==
    IF S = {} THEN 0
    ELSE LET i == CHOOSE j \in S : TRUE
         IN  classes[i].duration + SumDurations(classes, S \ {i})

(***************************************************************************)
(* AssignmentValidator                                                     *)
(***************************************************************************)
\* Fault model: the tier test that looks at the last name only.
validatorIsNewTrainerLastNameOnly(cls) ==
    \E name \in newTrainers : cls.teacherLastName = name

\* newTrainers.some(name => teacherName.includes(name)) on the joined name; in
\* the names of the model a tier name occurs only as a whole name part.
validatorIsNewTrainer(cls) ==
    \E name \in newTrainers : cls.teacherFirstName = name \/ cls.teacherLastName = name

\* Fault model: the hour-limit tail with >= in place of > on the cap.
hourLimitVerdictInclusive(newTotal, maxHours) ==
    IF newTotal >= maxHours * 60
    THEN [isValid |-> TRUE, error |-> "none", warning |-> "exceeds weekly limit", canOverride |-> "true"]
    ELSE IF newTotal > (maxHours - 3) * 60
    THEN [isValid |-> TRUE, error |-> "none", warning |-> "approaching limit", canOverride |-> "false"]
    ELSE [isValid |-> TRUE, error |-> "none", warning |-> "none", canOverride |-> "undefined"]

\* The hour-limit tail of validateTeacherHours; totals in minutes.
hourLimitVerdict(newTotal, maxHours) ==
    IF newTotal > maxHours * 60
    THEN [isValid |-> TRUE, error |-> "none", warning |-> "exceeds weekly limit", canOverride |-> "true"]
    ELSE IF newTotal > (maxHours - 3) * 60
    THEN [isValid |-> TRUE, error |-> "none", warning |-> "approaching limit", canOverride |-> "false"]
    ELSE [isValid |-> TRUE, error |-> "none", warning |-> "none", canOverride |-> "undefined"]

validateTeacherHours(scheduledClasses, newClass) ==
    LET teacherName == FullName(newClass)
        currentHours ==
            SumDurations(scheduledClasses,
                         {i \in DOMAIN scheduledClasses : FullName(scheduledClasses[i]) = teacherName})
        newTotal == currentHours + newClass.duration
        maxHours == IF validatorIsNewTrainer(newClass) THEN 10 ELSE 15
    IN  IF ~isClassAllowedAtLocation(newClass.classFormat, newClass.location)
        THEN [isValid |-> FALSE, error |-> "not allowed at location", warning |-> "none",
              canOverride |-> "false"]
        ELSE IF ~canAssignClassToStudio(scheduledClasses,
                    [day |-> newClass.day, time |-> newClass.time,
                     location |-> newClass.location, duration |-> newClass.duration])
        THEN [isValid |-> FALSE, error |-> "studio capacity exceeded", warning |-> "none",
              canOverride |-> "false"]
        ELSE IF validatorIsNewTrainer(newClass) /\ newClass.classFormat \notin allowedFormats
        THEN [isValid |-> FALSE, error |-> "can only teach the allowed formats", warning |-> "none",
              canOverride |-> "false"]
        ELSE hourLimitVerdict(newTotal, maxHours)

ScheduledClass(teacher, classFormat, location, day, time) ==
    [id |-> <<location, day, time>>, day |-> day, time |-> time, location |-> location, classFormat |-> classFormat,
     teacherFirstName |-> teacher[1], teacherLastName |-> JoinWords(Tail(teacher)),
     duration |-> getClassDuration(classFormat), participants |-> 0, revenue |-> <<0, 1>>,
     isTopPerformer |-> FALSE, isPrivate |-> FALSE]

\* The assignments existing sets are built from.
ExistingPool ==
    << ScheduledClass(Kabir, "Studio Barre 57", Kwality, "Monday", 7 * 60 + 30),
       ScheduledClass(Kabir, "Studio Cardio Barre", Kenkere, "Tuesday", 9 * 60),
       ScheduledClass(Reshma, "Studio FIT", Kwality, "Monday", 7 * 60 + 30),
       ScheduledClass(Reshma, "Studio Mat 57 (Express)", Kwality, "Monday", 8 * 60 + 15) >>

\* The proposals handed to the validator.
ProposalPool ==
    {ScheduledClass(teacher, classFormat, location, day, time) :
        teacher \in {Kabir, Reshma},
        classFormat \in {"Studio Barre 57", "Studio FIT", "Studio powerCycle", "Studio Mat 57 (Express)"},
        location \in {Kwality, Supreme},
        day \in {"Monday", "Tuesday"},
        time \in {7 * 60 + 30, 7 * 60 + 45, 8 * 60}}

PoolIndex(cls) == CHOOSE k \in DOMAIN ExistingPool : ExistingPool[k] = cls

InitV ==
    /\ csvData = <<>>
    /\ customTeachers = <<>>
    /\ options = [optimizationType |-> "balanced", targetDay |-> NoDay]
    /\ optimizedClasses = <<>>
    /\ teacherHoursTracker = [t \in Range(allTeachers) |-> 0]
    /\ teacherDailyHours = [t \in Range(allTeachers) |-> [d \in Range(days) |-> 0]]
    /\ teacherShiftAssignments =
           [t \in Range(allTeachers) |-> [d \in Range(days) |-> [morning |-> FALSE, evening |-> FALSE]]]
    /\ teacherLocationsPerDay = [t \in Range(allTeachers) |-> [d \in Range(days) |-> <<>>]]
    /\ teacherDailyClassCount = [t \in Range(allTeachers) |-> [d \in Range(days) |-> 0]]
    /\ classesScheduledForDay = 0
    /\ phase = "validator"
    /\ cursor = Cursor(0, 0, 0, 0, 0, 0, 0, "validator")
    /\ existingClasses = <<>>
    /\ proposedClass = <<>>
    /\ validation = <<>>
    /\ manualEdits = 0
    /\ entropy = 1
    /\ firstRun = <<>>
    /\ iterations = <<>>
    /\ acceptedSchedule = <<>>

BuilderVars == <<csvData, customTeachers, options, optimizedClasses, teacherHoursTracker,
                 teacherDailyHours, teacherShiftAssignments, teacherLocationsPerDay,
                 teacherDailyClassCount, classesScheduledForDay, phase, cursor,
                 sessionVars>>

\* The caller's assignment set grows by one assignment (sets are built in pool
\* order: the validator does not depend on the order of scheduledClasses).
AddExisting(k) ==
    /\ phase = "validator"
    /\ Len(existingClasses) < MaxExisting
    /\ existingClasses # <<>> => PoolIndex(existingClasses[Len(existingClasses)]) <= k
    /\ existingClasses' = Append(existingClasses, ExistingPool[k])
    /\ proposedClass' = <<>>
    /\ validation' = <<>>
    /\ UNCHANGED BuilderVars

\* One call validateTeacherHours(existingClasses, newClass); the call is pure,
\* so one recorded call per assignment set covers every proposal.
Validate(newClass) ==
    /\ phase = "validator"
    /\ proposedClass = <<>>
    /\ proposedClass' = <<newClass>>
    /\ validation' = <<validateTeacherHours(existingClasses, newClass)>>
    /\ UNCHANGED <<BuilderVars, existingClasses>>

NextV ==
    \/ \E k \in DOMAIN ExistingPool : AddExisting(k)
    \/ \E newClass \in ProposalPool : Validate(newClass)

SpecV == InitV /\ [][NextV]_vars

\* The function runs to its return statement: a call that has not returned
\* takes its next step.  This is weak fairness of Next, WF_vars(Next), with
\* ENABLED <<Next>>_vars written out as phase # "done": every phase action is
\* total on the states of its phase.
SpecL == Init /\ [][Next]_vars /\ ([]<>(phase = "done") \/ []<><<Next>>_vars)

(***************************************************************************)
(* Two runs on the same inputs                                             *)
(***************************************************************************)
\* The Date.now() / Math.random() streams a run can meet.
EntropyStreams == {1, 2}

\* Fault model: the second call that finds the weekly hours of the first.
RerunKeepsHours(stream) ==
    /\ phase = "done"
    /\ firstRun = <<>>
    /\ manualEdits = 0
    /\ firstRun' = <<optimizedClasses>>
    /\ entropy' = stream
    /\ optimizedClasses' = <<>>
    /\ teacherHoursTracker' = teacherHoursTracker
    /\ teacherDailyHours' = [t \in Range(allTeachers) |-> [d \in Range(days) |-> 0]]
    /\ teacherShiftAssignments' =
           [t \in Range(allTeachers) |-> [d \in Range(days) |-> [morning |-> FALSE, evening |-> FALSE]]]
    /\ teacherLocationsPerDay' = [t \in Range(allTeachers) |-> [d \in Range(days) |-> <<>>]]
    /\ teacherDailyClassCount' = [t \in Range(allTeachers) |-> [d \in Range(days) |-> 0]]
    /\ classesScheduledForDay' = 0
    /\ phase' = "phase0"
    /\ cursor' = Cursor(1, 0, 0, 0, 0, 0, 0, "seed")
    /\ UNCHANGED <<inputs, validatorVars, manualEdits, iterations, acceptedSchedule>>

\* generateIntelligentSchedule has returned; its result is kept and the
\* function is called again with the same csvData, customTeachers and options.
Rerun(stream) ==
    /\ phase = "done"
    /\ firstRun = <<>>
    /\ manualEdits = 0
    /\ firstRun' = <<optimizedClasses>>
    /\ entropy' = stream
    /\ optimizedClasses' = <<>>
    /\ teacherHoursTracker' = [t \in Range(allTeachers) |-> 0]
    /\ teacherDailyHours' = [t \in Range(allTeachers) |-> [d \in Range(days) |-> 0]]
    /\ teacherShiftAssignments' =
           [t \in Range(allTeachers) |-> [d \in Range(days) |-> [morning |-> FALSE, evening |-> FALSE]]]
    /\ teacherLocationsPerDay' = [t \in Range(allTeachers) |-> [d \in Range(days) |-> <<>>]]
    /\ teacherDailyClassCount' = [t \in Range(allTeachers) |-> [d \in Range(days) |-> 0]]
    /\ classesScheduledForDay' = 0
    /\ phase' = "phase0"
    /\ cursor' = Cursor(1, 0, 0, 0, 0, 0, 0, "seed")
    /\ UNCHANGED <<inputs, validatorVars, manualEdits, iterations, acceptedSchedule>>

NextD ==
    \/ Next
    \/ \E stream \in EntropyStreams : Rerun(stream)

SpecD == Init /\ [][NextD]_vars

(***************************************************************************)
(* Runs on the records of one slot                                         *)
(***************************************************************************)
InitR ==
    /\ csvData \in RankerDatasets
    /\ customTeachers = <<>>
    /\ options \in {o \in OptionSets : o.targetDay = "Thursday"}
    /\ FreshRun

SpecR == InitR /\ [][Next]_vars

(***************************************************************************)
(* Runs on a history that repeats one record                               *)
(***************************************************************************)
InitA ==
    /\ csvData \in RepeatedDatasets
    /\ customTeachers \in CustomTeacherLists
    /\ options = [optimizationType |-> "balanced", targetDay |-> NoDay]
    /\ FreshRun

SpecA == InitA /\ [][Next]_vars

\* Two calls, one after the other, on a history that repeats one record.
SpecT == InitA /\ [][NextD]_vars

(***************************************************************************)
(* Runs on a history of Sunday classes, for the week or for Sunday alone   *)
(***************************************************************************)
InitS ==
    /\ csvData \in SundayDatasets
    /\ customTeachers = <<>>
    /\ options \in [optimizationType : {"revenue", "attendance", "balanced"},
                    targetDay : {NoDay, "Sunday"}]
    /\ FreshRun

SpecS == InitS /\ [][Next]_vars

(***************************************************************************)
(* Runs for Sunday on the records of one Sunday slot                       *)
(***************************************************************************)
InitF ==
    /\ csvData \in FilterDatasets
    /\ customTeachers = <<>>
    /\ options \in [optimizationType : {"revenue", "attendance", "balanced"},
                    targetDay : {"Sunday"}]
    /\ FreshRun

SpecF == InitF /\ [][Next]_vars

(***************************************************************************)
(* Manual edit path                                                        *)
(***************************************************************************)
\* The assignments a user proposes on top of a generated schedule.
ManualPool ==
    { ScheduledClass(Anisha, "Studio Barre 57", Supreme, "Monday", 9 * 60),
      ScheduledClass(Anisha, "Studio Barre 57", Kwality, "Monday", 10 * 60),
      ScheduledClass(Anisha, "Studio Mat 57", Kwality, "Monday", 11 * 60),
      ScheduledClass(Anisha, "Studio FIT", Kwality, "Monday", 12 * 60),
      ScheduledClass(Kabir, "Studio FIT", Kwality, "Thursday", 12 * 60),
      ScheduledClass(Reshma, "Studio powerCycle", Kwality, "Thursday", 12 * 60) }

\* One manual addition to the schedule generateIntelligentSchedule returned:
\* the proposal is validated against the full assignment set and is added when
\* validateTeacherHours answers isValid = true without an overridable warning.
ManualAdd(newClass) ==
    /\ phase = "done"
    /\ manualEdits < MaxManual
    /\ validateTeacherHours(optimizedClasses, newClass).isValid
    /\ validateTeacherHours(optimizedClasses, newClass).canOverride # "true"
    /\ optimizedClasses' = Append(optimizedClasses, newClass)
    /\ manualEdits' = manualEdits + 1
    /\ UNCHANGED <<inputs, trackers, classesScheduledForDay, phase, cursor, validatorVars,
                   entropy, firstRun, iterations, acceptedSchedule>>

NextM ==
    \/ Next
    \/ \E newClass \in ManualPool : ManualAdd(newClass)

SpecM == Init /\ [][NextM]_vars

(***************************************************************************)
(* Recommendation service and optimizer modal                              *)
(***************************************************************************)
\* The assignments an answer of the recommendation service is made of.
SuggestionPool ==
    { ScheduledClass(Anisha, "Studio Barre 57", Kwality, "Monday", 7 * 60 + 30),
      ScheduledClass(Kabir, "Studio FIT", Kwality, "Monday", 7 * 60 + 30),
      ScheduledClass(Reshma, "Studio powerCycle", Kwality, "Monday", 7 * 60 + 30) }

\* What generateOptimizationIterations can return: JSON.parse(response) with
\* each schedule kept as it is, or [] when the call or the parse fails.
ServiceResponses == SeqsUpTo(SeqsUpTo(SuggestionPool, MaxSuggested), MaxIterations)

InitX ==
    /\ csvData \in {d \in Datasets : Len(d) <= 1}
    /\ customTeachers = <<>>
    /\ options \in {o \in OptionSets : o.targetDay = NoDay}
    /\ optimizedClasses = <<>>
    /\ teacherHoursTracker = [t \in Range(allTeachers) |-> 0]
    /\ teacherDailyHours = [t \in Range(allTeachers) |-> [d \in Range(days) |-> 0]]
    /\ teacherShiftAssignments =
           [t \in Range(allTeachers) |-> [d \in Range(days) |-> [morning |-> FALSE, evening |-> FALSE]]]
    /\ teacherLocationsPerDay = [t \in Range(allTeachers) |-> [d \in Range(days) |-> <<>>]]
    /\ teacherDailyClassCount = [t \in Range(allTeachers) |-> [d \in Range(days) |-> 0]]
    /\ classesScheduledForDay = 0
    /\ phase = "optimizer"
    /\ cursor = Cursor(0, 0, 0, 0, 0, 0, 0, "optimizer")
    /\ existingClasses = <<>>
    /\ proposedClass = <<>>
    /\ validation = <<>>
    /\ manualEdits = 0
    /\ entropy = 1
    /\ firstRun = <<>>
    /\ iterations = <<>>
    /\ acceptedSchedule = <<>>

\* handleOptimize: nothing without data; otherwise the iterations become the
\* schedules of the service's answer.  The modal is open until
\* handleApplyOptimization calls onClose.
handleOptimize(response) ==
    /\ phase = "optimizer"
    /\ acceptedSchedule = <<>>
    /\ csvData # <<>>
    /\ iterations' = response
    /\ UNCHANGED <<inputs, optimizedClasses, trackers, classesScheduledForDay, phase, cursor,
                   validatorVars, manualEdits, entropy, firstRun, acceptedSchedule>>

\* handleApplyOptimization with the iteration the user selected.
handleApplyOptimization(selectedIteration) ==
    /\ phase = "optimizer"
    /\ acceptedSchedule = <<>>
    /\ Len(iterations) > 0
    /\ selectedIteration >= 0 /\ selectedIteration < Len(iterations)
    /\ acceptedSchedule' = <<iterations[selectedIteration + 1]>>
    /\ UNCHANGED <<inputs, optimizedClasses, trackers, classesScheduledForDay, phase, cursor,
                   validatorVars, manualEdits, entropy, firstRun, iterations>>

NextX ==
    \/ \E response \in ServiceResponses : handleOptimize(response)
    \/ \E selectedIteration \in 0..MaxIterations : handleApplyOptimization(selectedIteration)

SpecX == InitX /\ [][NextX]_vars

(***************************************************************************)
(* Properties of the schedule under construction                           *)
(***************************************************************************)
\* The assignment was committed for this instructor (assignClass stores the
\* first word of the name and the rest of it).
StoredLastName == [teacher \in Range(SortedTeacherPool) |-> JoinWords(Tail(teacher))]

AssignedTo(cls, teacher) ==
    /\ cls.teacherFirstName = teacher[1]
    /\ cls.teacherLastName = StoredLastName[teacher]

ClassesOf(teacher, day) ==
    {i \in DOMAIN optimizedClasses :
        optimizedClasses[i].day = day /\ AssignedTo(optimizedClasses[i], teacher)}

WeekOf(teacher) == {i \in DOMAIN optimizedClasses : AssignedTo(optimizedClasses[i], teacher)}

\* Two assignments of one instructor (assignments carry the instructor as the
\* stored first and last name).
SameInstructor(a, b) ==
    /\ a.teacherFirstName = b.teacherFirstName
    /\ a.teacherLastName = b.teacherLastName

\* The assignments of the instructor of assignment i: on the day of i, and in
\* the whole week.
DayMates(i) ==
    {j \in DOMAIN optimizedClasses :
        /\ optimizedClasses[j].day = optimizedClasses[i].day
        /\ SameInstructor(optimizedClasses[i], optimizedClasses[j])}

WeekMates(i) ==
    {j \in DOMAIN optimizedClasses : SameInstructor(optimizedClasses[i], optimizedClasses[j])}

\* Number of assignments of the sequence running at a location and day at an instant.
RunningAt(classes, location, day, instant) ==
    Cardinality({i \in DOMAIN classes :
                    /\ classes[i].location = location
                    /\ classes[i].day = day
                    /\ classes[i].time <= instant
                    /\ instant < classes[i].time + classes[i].duration})

\* C1: at every location and day, at every instant, the number of assignments
\* whose interval [start, start + duration) contains the instant is at most the
\* location's capacity.  (The number of running classes only rises at a start
\* time, so the instants to look at are the start times.)
C1_Capacity ==
    \A i \in DOMAIN optimizedClasses :
        RunningAt(optimizedClasses, optimizedClasses[i].location, optimizedClasses[i].day,
                  optimizedClasses[i].time)
            <= getMaxParallelClasses(optimizedClasses[i].location)

\* C2: no instructor has assignments at two different locations on one day.
C2_SingleLocationPerDay ==
    \A i \in DOMAIN optimizedClasses : \A j \in DayMates(i) :
        optimizedClasses[i].location = optimizedClasses[j].location

\* C2 witness: Phase 3 is about to try a day at a location other than the one
\* the instructor already works at on that day.
C2_Witness ==
    /\ phase = "phase3" /\ cursor.stage = "day"
    /\ ClassesOf(allTeachers[cursor.teacher], days[cursor.day]) # {}
    /\ ~crossLocationCheck(allTeachers[cursor.teacher], days[cursor.day], locations[cursor.loc])
    /\ teacherDailyClassCount[allTeachers[cursor.teacher]][days[cursor.day]] < 4

\* C3: for every instructor the durations of a day sum to at most 4 hours and
\* those of the week to at most the tier cap (10 hours for a new-tier name,
\* 15 otherwise).
C3_HourCaps ==
    \A i \in DOMAIN optimizedClasses :
        /\ SumDurations(optimizedClasses, DayMates(i)) <= 4 * 60
        /\ \A teacher \in TeacherSet :
              AssignedTo(optimizedClasses[i], teacher) =>
                  SumDurations(optimizedClasses, WeekMates(i))
                      <= (IF \E name \in newTrainers : NameIncludes(teacher, name)
                          THEN 10 ELSE 15) * 60

\* C3 witness: an instructor stands exactly at the weekly cap.
C3_Witness ==
    \E teacher \in TeacherSet :
        SumDurations(optimizedClasses, WeekOf(teacher))
            = (IF isNewTrainer(teacher) THEN 10 ELSE 15) * 60

WorkingDays(teacher) == {day \in Range(AllDays) : ClassesOf(teacher, day) # {}}

\* C4: every instructor keeps at least 2 of the 7 days free, i.e. works on at
\* most 5 distinct days.
C4_DaysOff ==
    \A i \in DOMAIN optimizedClasses :
        Cardinality({optimizedClasses[j].day : j \in WeekMates(i)}) <= 5

\* C4 witness: Phase 3 tries a sixth day for an instructor who works on five.
C4_Witness ==
    /\ phase = "phase3" /\ cursor.stage = "day"
    /\ Cardinality(WorkingDays(allTeachers[cursor.teacher])) = 5
    /\ days[cursor.day] \notin WorkingDays(allTeachers[cursor.teacher])
    /\ ~daysOffCheck(allTeachers[cursor.teacher], days[cursor.day])

\* C5: no instructor has more than 4 assignments on one day.
C5_DailyClassCount ==
    \A i \in DOMAIN optimizedClasses : Cardinality(DayMates(i)) <= 4

\* C5 witness: an instructor with 4 assignments on a day is up for a fifth.
C5_Witness ==
    /\ phase = "phase3" /\ cursor.stage = "day"
    /\ Cardinality(ClassesOf(allTeachers[cursor.teacher], days[cursor.day])) = 4

\* C6: for every instructor and day there are no three assignments whose start
\* times, in order, are each at most 90 minutes after the previous one.
C6_NoThreeConsecutive ==
    \A teacher \in TeacherSet : \A day \in Range(AllDays) :
        ~ \E i, j, k \in ClassesOf(teacher, day) :
              /\ i # j /\ j # k /\ i # k
              /\ optimizedClasses[i].time <= optimizedClasses[j].time
              /\ optimizedClasses[j].time <= optimizedClasses[k].time
              /\ optimizedClasses[j].time - optimizedClasses[i].time <= 90
              /\ optimizedClasses[k].time - optimizedClasses[j].time <= 90

\* C7: every assignment of a new-tier instructor has a whitelisted format, and
\* every assignment of an advanced format has a senior-tier instructor.
C7_TierEligibility ==
    \A i \in DOMAIN optimizedClasses : \A teacher \in TeacherSet :
        AssignedTo(optimizedClasses[i], teacher) =>
            /\ (\E name \in newTrainers : NameIncludes(teacher, name))
                  => optimizedClasses[i].classFormat \in allowedFormats
            /\ optimizedClasses[i].classFormat \in advancedFormats
                  => \E name \in seniorTrainers : NameIncludes(teacher, name)

\* C7 witness: the schedule holds an advanced format and a new-tier
\* instructor's class, while the feed has a new-tier instructor on a format
\* outside the whitelist.
C7_Witness ==
    /\ \E i \in DOMAIN optimizedClasses : optimizedClasses[i].classFormat \in advancedFormats
    /\ \E i \in DOMAIN optimizedClasses : AssignedTo(optimizedClasses[i], Kabir)
    /\ \E i \in DOMAIN csvData :
          /\ \E name \in newTrainers : NameIncludes(csvData[i].teacherName, name)
          /\ csvData[i].cleanedClass \notin allowedFormats

\* C8: no assignment has a format that isClassAllowedAtLocation rejects at its
\* location.
C8_FormatLocationRule ==
    \A i \in DOMAIN optimizedClasses :
        isClassAllowedAtLocation(optimizedClasses[i].classFormat, optimizedClasses[i].location)

\* C8 witness: the feed holds a PowerCycle record outside Supreme HQ, and the
\* finished schedule holds PowerCycle, all of it at Supreme HQ.
C8_Witness ==
    /\ phase = "done"
    /\ \E i \in DOMAIN csvData :
          ~isClassAllowedAtLocation(csvData[i].cleanedClass, csvData[i].location)
    /\ \E i \in DOMAIN optimizedClasses :
          /\ LowerIncludes(optimizedClasses[i].classFormat, "powercycle")
          /\ optimizedClasses[i].location = Supreme

(***************************************************************************)
(* Properties of the validator (SpecV)                                     *)
(***************************************************************************)
\* Adding the proposal makes more classes run at its location and day than the
\* location has studios, at some instant of the proposed interval.
WouldExceedCapacity(classes, newClass) ==
    \E instant \in {newClass.time} \cup
                   {classes[i].time : i \in {j \in DOMAIN classes :
                                               /\ classes[j].time >= newClass.time
                                               /\ classes[j].time < newClass.time + newClass.duration}} :
        RunningAt(classes, newClass.location, newClass.day, instant) + 1
            > getMaxParallelClasses(newClass.location)

\* C9: a proposal that would push the number of simultaneously running classes
\* at its location and day past the capacity is answered isValid = false with
\* canOverride = false, whatever its other fields.
C9_RejectionLaw ==
    (validation # <<>> /\ WouldExceedCapacity(existingClasses, proposedClass[1]))
        => (~validation[1].isValid /\ validation[1].canOverride = "false")

HardChecksPass(classes, newClass) ==
    /\ isClassAllowedAtLocation(newClass.classFormat, newClass.location)
    /\ canAssignClassToStudio(classes, newClass)
    /\ validatorIsNewTrainer(newClass) => newClass.classFormat \in allowedFormats

ProjectedTotal(classes, newClass) ==
    SumDurations(classes, {i \in DOMAIN classes : FullName(classes[i]) = FullName(newClass)})
        + newClass.duration

WeeklyCap(newClass) == (IF validatorIsNewTrainer(newClass) THEN 10 ELSE 15) * 60

\* C10: a proposal that passes the hard checks and whose projected weekly
\* total exceeds the tier cap is answered isValid = true with a warning and
\* canOverride = true, and canOverride = true is returned in no other case.
C10_WeeklyCapOverridable ==
    validation # <<>> =>
        LET overCap == /\ HardChecksPass(existingClasses, proposedClass[1])
                       /\ ProjectedTotal(existingClasses, proposedClass[1]) > WeeklyCap(proposedClass[1])
        IN  /\ overCap => /\ validation[1].isValid
                          /\ validation[1].warning # "none"
                          /\ validation[1].canOverride = "true"
            /\ validation[1].canOverride = "true" => overCap

\* C10 witness: a call answered with the overridable warning.
C10_Witness ==
    /\ validation # <<>>
    /\ validation[1].isValid
    /\ validation[1].canOverride = "true"
    /\ ProjectedTotal(existingClasses, proposedClass[1]) > WeeklyCap(proposedClass[1])

\* C11: a proposal whose instructor is new-tier and whose format is outside
\* the new-tier whitelist is answered isValid = false with canOverride = false,
\* whatever the hours, the studio occupancy and the location are.
C11_TierWhitelistHard ==
    validation # <<>> =>
        LET newClass == proposedClass[1]
            newTier == newClass.teacherFirstName \in newTrainers
                           \/ newClass.teacherLastName \in newTrainers
        IN  (newTier /\ newClass.classFormat \notin allowedFormats)
                => (~validation[1].isValid /\ validation[1].canOverride = "false")

\* C11 witness: the tier check itself rejected a proposal whose projected
\* weekly total is above the cap.
C11_Witness ==
    /\ validation # <<>>
    /\ validation[1].error = "can only teach the allowed formats"
    /\ ~validation[1].isValid
    /\ validation[1].canOverride = "false"
    /\ ProjectedTotal(existingClasses, proposedClass[1]) > WeeklyCap(proposedClass[1])

\* C12: a proposal that passes the hard checks and whose projected weekly
\* total T lies within 3 hours of the cap (cap - 3 <= T <= cap) is answered
\* isValid = true with a warning and canOverride = false; for T < cap - 3 the
\* answer is isValid = true without a warning.
C12_NearCapWarning ==
    (validation # <<>> /\ HardChecksPass(existingClasses, proposedClass[1])) =>
        LET T == ProjectedTotal(existingClasses, proposedClass[1])
            cap == WeeklyCap(proposedClass[1])
        IN  /\ (cap - 3 * 60 <= T /\ T <= cap)
                    => /\ validation[1].isValid
                       /\ validation[1].warning # "none"
                       /\ validation[1].canOverride = "false"
            /\ T < cap - 3 * 60
                    => /\ validation[1].isValid
                       /\ validation[1].warning = "none"

\* C13: a generated schedule extended by manual additions that the validator
\* answered with isValid = true and no overridable warning has no instructor
\* at two different locations on one day.
C13_ManualEditsSingleLocation ==
    (phase = "done" /\ manualEdits > 0) =>
        \A i \in DOMAIN optimizedClasses : \A j \in DayMates(i) :
            optimizedClasses[i].location = optimizedClasses[j].location

\* C14: a generated schedule extended by manual additions that the validator
\* answered with isValid = true and no overridable warning has no instructor
\* with more than 4 hours or more than 4 classes on one day.
C14_ManualEditsDailyLimits ==
    (phase = "done" /\ manualEdits > 0) =>
        \A i \in DOMAIN optimizedClasses :
            /\ SumDurations(optimizedClasses, DayMates(i)) <= 4 * 60
            /\ Cardinality(DayMates(i)) <= 4

\* C15: the schedule handed to onOptimize has passed the checks of the
\* constraint engine: every assignment is allowed at its location, a new-tier
\* instructor teaches only whitelisted formats, no instant exceeds the
\* location's capacity and no instructor is at two locations on one day.
C15_AcceptedPassesEngine ==
    acceptedSchedule # <<>> =>
        LET accepted == acceptedSchedule[1]
        IN  \A i \in DOMAIN accepted :
                /\ isClassAllowedAtLocation(accepted[i].classFormat, accepted[i].location)
                /\ (accepted[i].teacherFirstName \in newTrainers
                        => accepted[i].classFormat \in allowedFormats)
                /\ RunningAt(accepted, accepted[i].location, accepted[i].day, accepted[i].time)
                       <= getMaxParallelClasses(accepted[i].location)
                /\ \A j \in DOMAIN accepted :
                       (accepted[j].day = accepted[i].day /\ SameInstructor(accepted[i], accepted[j]))
                           => accepted[j].location = accepted[i].location

\* C16: the second of two runs on the same dataset, custom teachers and
\* options returns the assignment set of the first: the same assignments in
\* the same order, every field equal.
C16_Idempotence ==
    (phase = "done" /\ firstRun # <<>>) => optimizedClasses = firstRun[1]

\* The records of csvData that pass the candidate filter of the slot of record i.
KeptAt(i) ==
    slotData(csvData[i].location, csvData[i].dayOfWeek, csvData[i].classTime,
             getDayGuidelines(csvData[i].dayOfWeek))

RankedAt(i) ==
    getBestClassForSlot(csvData[i].location, csvData[i].dayOfWeek, csvData[i].classTime,
                        getDayGuidelines(csvData[i].dayOfWeek))

FormatRecords(kept, f) == {j \in kept : csvData[j].cleanedClass = f}

\* The optimization score of format f over the kept records is at most that of g.
ScoreAtMost(kept, f, g) ==
    optimizationScoreNum(SumParticipants(csvData, FormatRecords(kept, f)),
                         SumRevenue(csvData, FormatRecords(kept, f)))
            * Cardinality(FormatRecords(kept, g))
        <= optimizationScoreNum(SumParticipants(csvData, FormatRecords(kept, g)),
                                SumRevenue(csvData, FormatRecords(kept, g)))
            * Cardinality(FormatRecords(kept, f))

OnPriorityList(i, f) == f \in getDayGuidelines(csvData[i].dayOfWeek).priority

\* C17: for every slot with a non-empty filtered candidate set,
\* getBestClassForSlot returns exactly one format of the set; no candidate is
\* on the day's priority list while the returned format is not, and among the
\* candidates with the same priority status none has a strictly higher
\* optimization score than the returned format.
C17_SingleTopFormat ==
    \A i \in DOMAIN csvData :
        KeptAt(i) # {} =>
            /\ Len(RankedAt(i)) = 1
            /\ \E j \in KeptAt(i) : csvData[j].cleanedClass = RankedAt(i)[1].classFormat
            /\ \A j \in KeptAt(i) :
                  /\ OnPriorityList(i, csvData[j].cleanedClass)
                         => OnPriorityList(i, RankedAt(i)[1].classFormat)
                  /\ (OnPriorityList(i, csvData[j].cleanedClass)
                          = OnPriorityList(i, RankedAt(i)[1].classFormat))
                         => ScoreAtMost(KeptAt(i), csvData[j].cleanedClass,
                                        RankedAt(i)[1].classFormat)

\* C17 witness: the format returned for a slot has been committed there; it
\* is on the priority list and beat a candidate outside the list with a
\* strictly higher score, and it beat a candidate on the list by its score.
C17_Witness ==
    \E i \in DOMAIN csvData :
        /\ KeptAt(i) # {}
        /\ \E c \in DOMAIN optimizedClasses :
              /\ optimizedClasses[c].location = csvData[i].location
              /\ optimizedClasses[c].day = csvData[i].dayOfWeek
              /\ optimizedClasses[c].time = csvData[i].classTime
              /\ optimizedClasses[c].classFormat = RankedAt(i)[1].classFormat
        /\ \E j \in KeptAt(i) :
              /\ ~OnPriorityList(i, csvData[j].cleanedClass)
              /\ ~ScoreAtMost(KeptAt(i), csvData[j].cleanedClass, RankedAt(i)[1].classFormat)
        /\ \E j \in KeptAt(i) :
              /\ OnPriorityList(i, csvData[j].cleanedClass)
              /\ csvData[j].cleanedClass # RankedAt(i)[1].classFormat
              /\ ~ScoreAtMost(KeptAt(i), RankedAt(i)[1].classFormat, csvData[j].cleanedClass)

\* The assignments of the format of record 1 at the record's location, day and time.
PlacedAtRecord ==
    {c \in DOMAIN optimizedClasses :
        /\ optimizedClasses[c].classFormat = csvData[1].cleanedClass
        /\ optimizedClasses[c].location = csvData[1].location
        /\ optimizedClasses[c].day = csvData[1].dayOfWeek
        /\ optimizedClasses[c].time = csvData[1].classTime}

TaughtByRecordInstructor(c) ==
    /\ optimizedClasses[c].teacherFirstName = csvData[1].teacherName[1]
    /\ optimizedClasses[c].teacherLastName = JoinWords(Tail(csvData[1].teacherName))

C19_Terminates == <>(phase = "done")

\* C19 witness: the function returned a non-empty schedule from a dataset that
\* has a record with no candidate at its slot and a record that passes the
\* filter of its slot while the slot stayed empty.
C19_Witness ==
    /\ phase = "done"
    /\ optimizedClasses # <<>>
    /\ \E i \in DOMAIN csvData : KeptAt(i) = {}
    /\ \E i \in DOMAIN csvData : KeptAt(i) # {} /\ \A c \in DOMAIN optimizedClasses :
           ~(/\ optimizedClasses[c].location = csvData[i].location
             /\ optimizedClasses[c].day = csvData[i].dayOfWeek
             /\ optimizedClasses[c].time = csvData[i].classTime)

\* The assignments at the location, day and time of record i.
InSlotOf(i) ==
    {c \in DOMAIN optimizedClasses :
        /\ optimizedClasses[c].location = csvData[i].location
        /\ optimizedClasses[c].day = csvData[i].dayOfWeek
        /\ optimizedClasses[c].time = csvData[i].classTime}

\* A kept record of the slot of record i whose format is not in the slot yet
\* and which some instructor is eligible to teach there.
FurtherPairAt(i) ==
    \E j \in KeptAt(i) :
        /\ \A c \in InSlotOf(i) : optimizedClasses[c].classFormat # csvData[j].cleanedClass
        /\ \E teacher \in Range(allTeachers) :
              canAssignTeacher(teacher, csvData[i].dayOfWeek, csvData[i].classTime,
                               getClassDuration(csvData[j].cleanedClass),
                               csvData[j].cleanedClass, csvData[i].location)

\* Phase 2 has just ended: nothing of Phase 3 is committed yet.
Phase2Over == phase = "phase3" /\ cursor.stage = "teacher" /\ cursor.teacher = 1

\* C20: when Phase 2 is over, every slot it visited below the day cap holds
\* the target number of assignments, unless the location's capacity at the
\* slot is exhausted or no further format that passes the candidate filter,
\* is not yet in the slot and has an eligible instructor exists.
C20_FillsToTarget ==
    Phase2Over =>
        \A i \in DOMAIN csvData :
            (/\ \E d \in DOMAIN days : days[d] = csvData[i].dayOfWeek
             /\ \E t \in DOMAIN getAvailableTimeSlots(csvData[i].dayOfWeek) :
                   getAvailableTimeSlots(csvData[i].dayOfWeek)[t] = csvData[i].classTime
             /\ ClassesOnDay(optimizedClasses, csvData[i].dayOfWeek)
                   < maxClassesForDay(csvData[i].dayOfWeek))
            => \/ Cardinality(InSlotOf(i))
                     >= targetClasses(csvData[i].location, csvData[i].classTime)
               \/ ~canAssignClassToStudio(optimizedClasses,
                       [day |-> csvData[i].dayOfWeek, time |-> csvData[i].classTime,
                        location |-> csvData[i].location, duration |-> 60])
               \/ ~FurtherPairAt(i)

\* A placement Phase 3 would still commit for the teacher: one of the
\* specialties of the teacher's branch at an allowed location, on a targeted
\* day, at a slot of the scan, passing the capacity check and canAssignTeacher.
RemainingPlacement(teacher) ==
    \E s \in DOMAIN phase3Specialties(teacher, phase3Mode(teacher)) :
        \E l \in DOMAIN locations : \E d \in DOMAIN days :
            /\ isClassAllowedAtLocation(
                   phase3Specialties(teacher, phase3Mode(teacher))[s].classFormat, locations[l])
            /\ \E t \in DOMAIN phase3Slots(phase3Mode(teacher), days[d]) :
                  phase3Fits(teacher,
                             phase3Specialties(teacher, phase3Mode(teacher))[s].classFormat,
                             locations[l], days[d],
                             phase3Slots(phase3Mode(teacher), days[d])[t])

\* C21: when Phase 3 has ended, every instructor whose weekly hours are still
\* below the tolerance margin of the target (so they were below it when
\* Phase 3 started, hours never decrease) has no remaining placement of a
\* specialty that passes the capacity check, the format/location rule and
\* canAssignTeacher.
C21_ToppedUpOrExhausted ==
    phase = "done" =>
        \A teacher \in Range(allTeachers) :
            teacherHoursTracker[teacher] < (targetHours(teacher) - 2) * 10
                => ~RemainingPlacement(teacher)

\* C22: in the returned schedule the assignments on Sunday, over all
\* locations, number at most 5.
C22_SundayCap ==
    phase = "done" => ClassesOnDay(optimizedClasses, "Sunday") <= 5

\* Assignment i is a tuple of the must-run list: same format, location, day,
\* time and instructor.
SeedOf(i) ==
    \E k \in DOMAIN getDefaultTopClasses :
        /\ getDefaultTopClasses[k].classFormat = optimizedClasses[i].classFormat
        /\ getDefaultTopClasses[k].location = optimizedClasses[i].location
        /\ getDefaultTopClasses[k].day = optimizedClasses[i].day
        /\ getDefaultTopClasses[k].time = optimizedClasses[i].time
        /\ AssignedTo(optimizedClasses[i], getDefaultTopClasses[k].teacher)

\* Assignment i carries isLocked = true.
CarriesLock(i) ==
    /\ "isLocked" \in DOMAIN optimizedClasses[i]
    /\ optimizedClasses[i].isLocked = TRUE

\* C23: in the returned schedule every assignment committed from the must-run
\* list carries isLocked = true, and no other assignment does.
C23_SeedsLocked ==
    phase = "done" =>
        \A i \in DOMAIN optimizedClasses : SeedOf(i) <=> CarriesLock(i)

\* The records of format f at the location, day and time of record i that
\* are not hosted sessions.
SlotRecordsOf(i, f) ==
    {j \in DOMAIN csvData :
        /\ csvData[j].location = csvData[i].location
        /\ csvData[j].dayOfWeek = csvData[i].dayOfWeek
        /\ csvData[j].classTime = csvData[i].classTime
        /\ csvData[j].cleanedClass = f
        /\ ~isHostedClass(f)}

\* C24: the format getBestClassForSlot returns for a slot has an average of
\* at least 5 participants over all non-hosted records of the format at the
\* slot's location, day and time.
C24_MinimumAverage ==
    \A i \in DOMAIN csvData :
        RankedAt(i) # <<>> =>
            SumParticipants(csvData, SlotRecordsOf(i, RankedAt(i)[1].classFormat))
                >= 5 * Cardinality(SlotRecordsOf(i, RankedAt(i)[1].classFormat))

\* Record j lies in the slot of record i and is open to selection: not a
\* hosted session, allowed at the location, not on the day's avoid list, and
\* with at least 5 participants.
Survives(i, j) ==
    /\ csvData[j].location = csvData[i].location
    /\ csvData[j].dayOfWeek = csvData[i].dayOfWeek
    /\ csvData[j].classTime = csvData[i].classTime
    /\ ~LowerIncludes(csvData[j].cleanedClass, "hosted")
    /\ IF csvData[i].location = Supreme
       THEN csvData[j].cleanedClass \notin {"Studio HIIT", "Studio Amped Up!"}
       ELSE csvData[j].cleanedClass \notin {"Studio powerCycle"}
    /\ csvData[j].cleanedClass \notin getDayGuidelines(csvData[i].dayOfWeek).avoid
    /\ csvData[j].participants >= 5

\* C25: the format getBestClassForSlot returns for a slot is the format of a
\* record of the slot that is not a hosted session, is allowed at the
\* location and is not on the day's avoid list; it returns null exactly when
\* no record of the slot survives these filters and the threshold.
C25_CandidateExclusions ==
    \A i \in DOMAIN csvData :
        /\ RankedAt(i) = <<>> <=> ~ \E j \in DOMAIN csvData : Survives(i, j)
        /\ RankedAt(i) # <<>> =>
              \E j \in DOMAIN csvData :
                  Survives(i, j) /\ csvData[j].cleanedClass = RankedAt(i)[1].classFormat

\* C25 witness: the format returned for a slot has been committed there while
\* the history also holds a record of a format on the day's avoid list with
\* more participants, and a record of a hosted session or of a format not
\* allowed at the location.
C25_Witness ==
    \E i \in DOMAIN csvData :
        /\ RankedAt(i) # <<>>
        /\ \E c \in DOMAIN optimizedClasses :
              /\ optimizedClasses[c].location = csvData[i].location
              /\ optimizedClasses[c].day = csvData[i].dayOfWeek
              /\ optimizedClasses[c].time = csvData[i].classTime
              /\ optimizedClasses[c].classFormat = RankedAt(i)[1].classFormat
        /\ \E j \in DOMAIN csvData :
              /\ csvData[j].cleanedClass \in getDayGuidelines(csvData[i].dayOfWeek).avoid
              /\ csvData[j].participants > csvData[i].participants
        /\ \E j \in DOMAIN csvData :
              isHostedClass(csvData[j].cleanedClass)
                  \/ ~isClassAllowedAtLocation(csvData[j].cleanedClass, csvData[i].location)

\* The positions in allTeachers of the instructors eligible for query q, a
\* record giving format, location, day and time.
EligibleFor(q) ==
    {k \in DOMAIN allTeachers :
        canAssignTeacher(allTeachers[k], q.dayOfWeek, q.classTime,
                         getClassDuration(q.cleanedClass), q.cleanedClass, q.location)}

\* The score of the instructor at position k for query q, given the
\* historically best instructor of the query.
ScoreFor(q, historicBestTeacher, k) ==
    scoreGiven(allTeachers[k], q.location, q.dayOfWeek, q.classTime, historicBestTeacher)

\* Answer r for query q is none exactly when nobody is eligible, and
\* otherwise the first of the eligible instructors with the highest score.
FirstOfTopScores(q, eligible, historicBestTeacher, r) ==
    /\ r = <<>> <=> eligible = {}
    /\ r # <<>> =>
          \E k \in eligible :
              /\ allTeachers[k] = r[1]
              /\ \A m \in eligible :
                    /\ ScoreFor(q, historicBestTeacher, m) <= ScoreFor(q, historicBestTeacher, k)
                    /\ ScoreFor(q, historicBestTeacher, m) = ScoreFor(q, historicBestTeacher, k)
                           => k <= m

HistoricBestFor(q) ==
    getBestTeacherForClass(csvData, q.cleanedClass, q.location, q.dayOfWeek, q.classTime)

\* C26: in every tracker state and for the format, location, day and time of
\* every record of the history, findBestTeacherForClass returns an eligible
\* instructor whose score is maximal among the eligible ones, the first in the
\* sorted instructor list among equal top scores, and none exactly when no
\* instructor is eligible.
C26_InstructorSelection ==
    \A q \in Range(csvData) :
        FirstOfTopScores(q, EligibleFor(q), HistoricBestFor(q),
                         findBestTeacherForClass(q.cleanedClass, q.location,
                                                 q.dayOfWeek, q.classTime))

\* A query with two eligible instructors sharing the top score and an
\* eligible instructor below it.
TiedAtTop(q, eligible, historicBestTeacher) ==
    \E k \in eligible :
        /\ \A m \in eligible :
              ScoreFor(q, historicBestTeacher, m) <= ScoreFor(q, historicBestTeacher, k)
        /\ \E m \in eligible :
              m # k /\ ScoreFor(q, historicBestTeacher, m) = ScoreFor(q, historicBestTeacher, k)
        /\ \E m \in eligible :
              ScoreFor(q, historicBestTeacher, m) < ScoreFor(q, historicBestTeacher, k)

\* C26 witness: Phase 2 has committed at the slot of a record, and in the
\* tracker state reached some query has two eligible instructors with the
\* same top score and an eligible instructor with a lower one.
C26_Witness ==
    /\ phase \in {"phase2", "phase3", "done"}
    /\ \E c \in DOMAIN optimizedClasses : ~SeedOf(c)
    /\ \E q \in Range(csvData) : TiedAtTop(q, EligibleFor(q), HistoricBestFor(q))

\* C27: in every tracker state and for the format, location, day and time of
\* every record of the history, findBestTeacherForClass returns the
\* historically best instructor whenever that instructor is eligible.
C27_HistoricBestFirst ==
    \A q \in Range(csvData) :
        (/\ HistoricBestFor(q) # <<>>
         /\ \E k \in EligibleFor(q) : allTeachers[k] = HistoricBestFor(q)[1])
            => findBestTeacherForClass(q.cleanedClass, q.location, q.dayOfWeek, q.classTime)
                   = HistoricBestFor(q)

\* The assignments of a schedule at Kwality House, 07:30 on a day.
OpeningSlot(classes, day) ==
    {i \in DOMAIN classes :
        /\ classes[i].location = "Kwality House, Kemps Corner"
        /\ classes[i].day = day
        /\ classes[i].time = 7 * 60 + 30}

\* Phase 1 is over: every weekday of the run for which getBestClassForSlot
\* has a candidate at the opening slot holds an assignment there.
OpeningSlotsHeld ==
    phase \in {"phase2", "phase3", "done"} =>
        \A d \in DOMAIN days :
            (/\ days[d] \notin {"Saturday", "Sunday"}
             /\ getBestClassForSlot(Kwality, days[d], 7 * 60 + 30, getDayGuidelines(days[d])) # <<>>)
                => OpeningSlot(optimizedClasses, days[d]) # {}

\* A step of Phase 1 leaves the schedule alone or appends one assignment, at
\* Kwality House, 07:30 on a weekday that held no assignment there.
Phase1StepAddsOpening ==
    phase = "phase1" =>
        \/ optimizedClasses' = optimizedClasses
        \/ /\ Len(optimizedClasses') = Len(optimizedClasses) + 1
           /\ SubSeq(optimizedClasses', 1, Len(optimizedClasses)) = optimizedClasses
           /\ optimizedClasses'[Len(optimizedClasses')].location = "Kwality House, Kemps Corner"
           /\ optimizedClasses'[Len(optimizedClasses')].time = 7 * 60 + 30
           /\ optimizedClasses'[Len(optimizedClasses')].day = days[cursor.day]
           /\ days[cursor.day] \in {"Monday", "Tuesday", "Wednesday", "Thursday", "Friday"}
           /\ OpeningSlot(optimizedClasses, days[cursor.day]) = {}

\* C28: once Phase 1 is over, every targeted weekday with a candidate at
\* Kwality House, 07:30 holds an assignment at that slot (whether or not an
\* instructor is eligible); and each day of Phase 1 adds at most one
\* assignment, only at Kwality House, 07:30, never on a weekday that already
\* holds one there and never on Saturday or Sunday.
C28_OpeningSlot == []OpeningSlotsHeld /\ [][Phase1StepAddsOpening]_vars

\* C28 witness: Phase 1 is over and the Monday of the run, for which the
\* history has a candidate at Kwality House, 07:30, holds exactly one
\* assignment at that slot.
C28_Witness ==
    /\ phase = "phase2"
    /\ \E d \in DOMAIN days :
          /\ days[d] = "Monday"
          /\ getBestClassForSlot(Kwality, days[d], 7 * 60 + 30, getDayGuidelines(days[d])) # <<>>
          /\ Cardinality(OpeningSlot(optimizedClasses, days[d])) = 1

\* The place of a phase in the order of the run.
PhaseRank(p) ==
    CASE p = "phase0" -> 0
      [] p = "phase1" -> 1
      [] p = "phase2" -> 2
      [] p = "phase3" -> 3
      [] OTHER -> 4

\* A step stays in its phase or moves to the next one, and keeps every
\* assignment of the schedule, in place and with every field unchanged.
MonotoneStep ==
    /\ PhaseRank(phase') \in {PhaseRank(phase), PhaseRank(phase) + 1}
    /\ Len(optimizedClasses') >= Len(optimizedClasses)
    /\ \A i \in DOMAIN optimizedClasses : optimizedClasses'[i] = optimizedClasses[i]

\* C29: the phases run in the order 0, 1, 2, 3 with none revisited, and every
\* step only appends: an assignment of the schedule stays in it, unchanged,
\* in every later state and in the returned schedule.
C29_MonotoneConstruction == [][MonotoneStep]_vars

\* C29 witness: the run is over and the returned schedule holds a seed of
\* Phase 0 at its first position, followed by an assignment of a later phase
\* and by a further one committed after that.
C29_Witness ==
    /\ phase = "done"
    /\ Len(optimizedClasses) >= 3
    /\ SeedOf(1)
    /\ \E c \in DOMAIN optimizedClasses :
          ~SeedOf(c) /\ c < Len(optimizedClasses)

\* A step that commits nothing (its checks rejected, or assignClass returned
\* false) leaves the assignment set and every instructor counter unchanged.
RejectionFrame ==
    optimizedClasses' = optimizedClasses =>
        /\ teacherHoursTracker' = teacherHoursTracker
        /\ teacherDailyHours' = teacherDailyHours
        /\ teacherDailyClassCount' = teacherDailyClassCount
        /\ teacherLocationsPerDay' = teacherLocationsPerDay
        /\ teacherShiftAssignments' = teacherShiftAssignments

OpenStart(day, time) ==
    /\ time % 15 = 0
    /\ \/ /\ time < 12 * 60
          /\ time >= (CASE day = "Sunday" -> 10 * 60
                        [] day = "Saturday" -> 8 * 60 + 30
                        [] OTHER -> 7 * 60 + 30)
       \/ time >= 17 * 60 /\ time <= 19 * 60 + 45

\* C31: every assignment of the schedule, seeds included, is non-private and
\* starts at a time of getAvailableTimeSlots of its day: never in the
\* restricted window 12:00 <= t < 17:00, never before 10:00 on Sunday, 08:30
\* on Saturday or 07:30 on a weekday.
C31_OperatingHours ==
    \A i \in DOMAIN optimizedClasses :
        /\ optimizedClasses[i].isPrivate = FALSE
        /\ OpenStart(optimizedClasses[i].day, optimizedClasses[i].time)
        /\ ~isTimeRestricted(optimizedClasses[i].time, optimizedClasses[i].day, FALSE)
        /\ \E t \in DOMAIN getAvailableTimeSlots(optimizedClasses[i].day) :
              getAvailableTimeSlots(optimizedClasses[i].day)[t] = optimizedClasses[i].time

\* C31 witness: the returned schedule holds a seed, an assignment of Phase 2
\* or 3 at the first slot of Sunday (10:00) and one in the evening.
C31_Witness ==
    /\ phase = "done"
    /\ \E i \in DOMAIN optimizedClasses : SeedOf(i)
    /\ \E i \in DOMAIN optimizedClasses :
          /\ ~SeedOf(i)
          /\ optimizedClasses[i].day = "Sunday"
          /\ optimizedClasses[i].time = 10 * 60
    /\ \E i \in DOMAIN optimizedClasses :
          ~SeedOf(i) /\ optimizedClasses[i].time >= 17 * 60

\* Assignments i and j of one instructor on one day whose intervals
\* [start, start + duration) overlap.
DoubleBooked(i, j) ==
    /\ i # j
    /\ SameInstructor(optimizedClasses[i], optimizedClasses[j])
    /\ optimizedClasses[i].day = optimizedClasses[j].day
    /\ optimizedClasses[i].time < optimizedClasses[j].time + optimizedClasses[j].duration
    /\ optimizedClasses[j].time < optimizedClasses[i].time + optimizedClasses[i].duration

\* C33: in every state of the run no instructor has two assignments on the
\* same day whose intervals overlap.
C33_NoDoubleBooking ==
    \A i, j \in DOMAIN optimizedClasses : ~DoubleBooked(i, j)

\* A schedule without the id of its assignments (the id holds Date.now() and
\* Math.random(), which differ from call to call whatever the state).
WithoutIds(classes) ==
    [i \in DOMAIN classes |-> [f \in (DOMAIN classes[i]) \ {"id"} |-> classes[i][f]]]

C34_NoAvoidedFormat ==
    phase = "done" =>
        \A i \in DOMAIN optimizedClasses :
            optimizedClasses[i].classFormat \notin getDayGuidelines(optimizedClasses[i].day).avoid

\* C35: in every state of the run no two assignments share location, day,
\* start time and format.
C35_NoDuplicateFormatInSlot ==
    \A i, j \in DOMAIN optimizedClasses :
        (/\ optimizedClasses[i].location = optimizedClasses[j].location
         /\ optimizedClasses[i].day = optimizedClasses[j].day
         /\ optimizedClasses[i].time = optimizedClasses[j].time
         /\ optimizedClasses[i].classFormat = optimizedClasses[j].classFormat)
            => i = j

\* C35 witness: the returned schedule holds two assignments of different
\* formats in one slot, and an assignment that went to a later slot of a day
\* and location whose first slot holds its format.
C35_Witness ==
    /\ phase = "done"
    /\ \E i, j \in DOMAIN optimizedClasses :
          /\ optimizedClasses[i].location = optimizedClasses[j].location
          /\ optimizedClasses[i].day = optimizedClasses[j].day
          /\ optimizedClasses[i].time = optimizedClasses[j].time
          /\ optimizedClasses[i].classFormat # optimizedClasses[j].classFormat
    /\ \E i, j \in DOMAIN optimizedClasses :
          /\ SeedOf(i) /\ ~SeedOf(j)
          /\ optimizedClasses[i].location = optimizedClasses[j].location
          /\ optimizedClasses[i].day = optimizedClasses[j].day
          /\ optimizedClasses[i].classFormat = optimizedClasses[j].classFormat
          /\ optimizedClasses[i].time = getAvailableTimeSlots(optimizedClasses[i].day)[1]
          /\ optimizedClasses[j].time = getAvailableTimeSlots(optimizedClasses[i].day)[2]

\* A step that appends an assignment appends one that validateTeacherHours,
\* given the assignment set before the step, accepts without asking for an
\* override.
CommitIsValidatorAcceptable ==
    Len(optimizedClasses') = Len(optimizedClasses) + 1 =>
        /\ validateTeacherHours(optimizedClasses,
                                optimizedClasses'[Len(optimizedClasses')]).isValid
        /\ validateTeacherHours(optimizedClasses,
                                optimizedClasses'[Len(optimizedClasses')]).canOverride # "true"

\* C36: every assignment the run commits, checked by validateTeacherHours
\* against the assignment set as it was just before the commit, yields
\* isValid = true with canOverride not true.
C36_CommitsValidatorAcceptable == [][CommitIsValidatorAcceptable]_vars

\* C36 witness: the run is over with an instructor of the new tier brought
\* to exactly 10 hours by the commits, and an instructor whose weekly-hours
\* tracker (in tenths) stands above the sum of the durations (in minutes)
\* because of the rounding of 45-minute classes.
C36_Witness ==
    /\ phase = "done"
    /\ \E teacher \in Range(allTeachers) :
          /\ isNewTrainer(teacher)
          /\ SumDurations(optimizedClasses, WeekOf(teacher)) = 10 * 60
    /\ \E teacher \in Range(allTeachers) :
          teacherHoursTracker[teacher] * 6 > SumDurations(optimizedClasses, WeekOf(teacher))

\* Must-run tuple k stands in the schedule at its format, location, day and
\* time with its designated instructor.
SeedPlaced(k) ==
    \E i \in DOMAIN optimizedClasses :
        /\ optimizedClasses[i].classFormat = getDefaultTopClasses[k].classFormat
        /\ optimizedClasses[i].location = getDefaultTopClasses[k].location
        /\ optimizedClasses[i].day = getDefaultTopClasses[k].day
        /\ optimizedClasses[i].time = getDefaultTopClasses[k].time
        /\ AssignedTo(optimizedClasses[i], getDefaultTopClasses[k].teacher)

\* C37: in the returned schedule every must-run tuple of getDefaultTopClasses
\* whose day is targeted stands at its exact format, location, day and time
\* with its designated instructor.
C37_SeedsAlwaysRun ==
    phase = "done" =>
        \A k \in DOMAIN getDefaultTopClasses :
            getDefaultTopClasses[k].day \in Range(days) => SeedPlaced(k)

\* C37 witness: a finished run over the whole week in which all ten must-run
\* tuples stand beside assignments of the later phases; Anisha Shah holds
\* her two Monday seeds at 07:30 and 08:30.
C37_Witness ==
    /\ phase = "done"
    /\ Len(days) = 7
    /\ \A k \in DOMAIN getDefaultTopClasses : SeedPlaced(k)
    /\ Len(optimizedClasses) > Len(getDefaultTopClasses)
    /\ Cardinality(ClassesOf(Anisha, "Monday")) >= 2

\* The daily class counter of each instructor and day equals the number of
\* the instructor's assignments on that day.
DailyCountConsistent ==
    \A teacher \in Range(allTeachers) : \A day \in Range(days) :
        teacherDailyClassCount[teacher][day] = Cardinality(ClassesOf(teacher, day))

\* The per-day location list of each instructor equals the set of locations
\* of the instructor's assignments on that day.
LocationListConsistent ==
    \A teacher \in Range(allTeachers) : \A day \in Range(days) :
        Range(teacherLocationsPerDay[teacher][day]) =
            {optimizedClasses[i].location : i \in ClassesOf(teacher, day)}

\* The weekly-hours counter of each instructor (in tenths of an hour) equals
\* the sum of the durations (in minutes) of the instructor's assignments.
WeeklyHoursConsistent ==
    \A teacher \in Range(allTeachers) :
        teacherHoursTracker[teacher] * 6 = SumDurations(optimizedClasses, WeekOf(teacher))

\* C38: at every point of the run, for every instructor and day, the daily
\* class counter equals the number of the instructor's assignments on that
\* day, the per-day location list equals the set of their locations, and the
\* weekly-hours counter equals the sum of the durations of all the
\* instructor's assignments.
C38_TrackerConsistency ==
    /\ DailyCountConsistent
    /\ LocationListConsistent
    /\ WeeklyHoursConsistent

====
